---- MODULE Spec2Model ----
(***************************************************************************)
(* Ledger state machine of the private-currency service: the storage       *)
(* schema (src/src/storage.rs), the transaction handlers                   *)
(* (src/src/transactions.rs), the service hooks (src/src/lib.rs) and the   *)
(* debugger probe (src/src/debug.rs).                                      *)
(*                                                                         *)
(* A Pedersen commitment is modelled by the integer it commits to: the     *)
(* commitment arithmetic of crypto/proofs.rs is integer + and -, and a     *)
(* range proof verifies exactly when the committed value is non-negative   *)
(* (soundness and completeness of the Bulletproof; the upper end 2^64 of   *)
(* the range is far above every value that the bounded supply can reach).  *)
(* A transaction hash is the position of the transaction in the core       *)
(* `transactions` table.  A Merkle root is modelled by the content it      *)
(* commits to (collision resistance), the root of an empty map being the   *)
(* zero hash.                                                              *)
(*                                                                         *)
(* src/src/transactions.rs predates the `history_len` field of Transfer    *)
(* that secrets.rs:300-310 writes and tests/tx_logic.rs:386-392 read; the  *)
(* history reference checks of Transfer::execute are therefore taken from  *)
(* the specification (HistoryRefCheck, ReferencedBalance).                  *)
(***************************************************************************)
EXTENDS Integers, Sequences, FiniteSets, TLC

\* ---------------------------------------------------------------- bounds
MaxTxs == 4
MaxHeight == 9
MaxFailed == 1
MaxDebuggerFailed == 0
\* Transactions submitted to a network started from the genesis block.
MaxGenesisTxs == 3
\* Validators in the trust anchor of a light client.
MaxValidators == 3
\* Precommits the server attaches to a block header.
MaxPrecommits == 3

\* ------------------------------------------------------ program constants

INITIAL_BALANCE == 1000000
ROLLBACK_DELAY_START == 5
ROLLBACK_DELAY_END == 1000
MIN_TRANSFER_AMOUNT == 1

Keys == {"alice", "bob"}
NoKey == "nobody"
Amounts == {0, 1, 600000}
Delays == {ROLLBACK_DELAY_START - 1, ROLLBACK_DELAY_START, ROLLBACK_DELAY_END}
HistoryLens == {0, 1, 2}

VARIABLES
    height,                 \* CoreSchema::height(): height of the last committed block
    transactions,           \* core transactions table with locations; hash = index
    wallets,                \* private_currency.wallets
    history,                \* private_currency.history, per key
    unaccepted_transfers,   \* private_currency.unaccepted_payments, per key
    rollback_by_height,     \* private_currency.rollback_by_height, pairs <<height, hash>>
    past_balances,          \* private_currency.past_balances, per key
    rolled_back_transfers,  \* private_currency.debug.rolled_back
    debugger_probe,         \* Service::debugger_probe is Some
    shutdown,               \* DebuggerProbe::shutdown
    rx_dropped,             \* the Debugger (receiving end) has been dropped
    debug_events            \* events sent through the channel, in order

\* A light client and the server that answers it.
VARIABLES
    client_anchor,          \* TrustAnchor of the client
    served_block_proof,     \* BlockProof of the WalletProof the server answers with
    verdict                 \* result of TrustAnchor::verify_block_proof

\* The owner of a wallet, off-chain.
VARIABLES
    secret_state,           \* SecretState of the owner
    created,                \* outcome of the last SecretState::create_transfer
    owner_opening,          \* an Opening the owner computes with
    operation               \* the last operation on `owner_opening` and its operand

secret_vars == <<secret_state, created, owner_opening, operation>>

client_vars == <<client_anchor, served_block_proof, verdict, secret_vars>>

vars == <<height, transactions, wallets, history, unaccepted_transfers,
          rollback_by_height, past_balances, rolled_back_transfers,
          debugger_probe, shutdown, rx_dropped, debug_events,
          client_anchor, served_block_proof, verdict,
          secret_state, created, owner_opening, operation>>

\* ------------------------------------------------------------- hashes
ZeroHash == [kind |-> "zero", content |-> {}]
ListRoot(list) == [kind |-> "list", content |-> list]
MapRoot(keys) == IF keys = {} THEN ZeroHash ELSE [kind |-> "map", content |-> keys]

\* ------------------------------------------------------------- events
EventCreateWallet(id) == [tag |-> 0, transaction_hash |-> id]
EventTransfer(id) == [tag |-> 1, transaction_hash |-> id]
EventRollback(id) == [tag |-> 2, transaction_hash |-> id]

\* ------------------------------------------------- SparseListIndex calls
EmptySparse == [capacity |-> 0, items |-> [i \in {} |-> 0]]
SparseSet(list, index, value) ==
    [capacity |-> IF index >= list.capacity THEN index + 1 ELSE list.capacity,
     items |-> (index :> value) @@ list.items]
SparsePush(list, value) ==
    [capacity |-> list.capacity + 1,
     items |-> (list.capacity :> value) @@ list.items]
SparseRemoveAll(list) ==
    [capacity |-> list.capacity, items |-> [i \in {} |-> 0]]

\* --------------------------------------------------------------- wallet
\* Wallet::initialize that counts no event in the new wallet's history.
WalletInitialize_empty_history(key, history_hash) ==
    [public_key |-> key,
     balance |-> INITIAL_BALANCE,
     history_len |-> 0,
     last_send_index |-> 0,
     history_hash |-> history_hash,
     unaccepted_transfers_hash |-> ZeroHash]

WalletInitialize(key, history_hash) ==
    [public_key |-> key,
     balance |-> INITIAL_BALANCE,
     history_len |-> 1,
     last_send_index |-> 0,
     history_hash |-> history_hash,
     unaccepted_transfers_hash |-> ZeroHash]

\* subtract_balance that leaves the balance alone.
subtract_balance_forgotten(w, difference, history_hash) ==
    [w EXCEPT !.history_len = w.history_len + 1,
              !.last_send_index = w.history_len,
              !.history_hash = history_hash]

\* subtract_balance that does not record the index of the transfer.
subtract_balance_without_send_index(w, difference, history_hash) ==
    [w EXCEPT !.balance = w.balance - difference,
              !.history_len = w.history_len + 1,
              !.history_hash = history_hash]

subtract_balance(w, difference, history_hash) ==
    [w EXCEPT !.balance = w.balance - difference,
              !.history_len = w.history_len + 1,
              !.last_send_index = w.history_len,
              !.history_hash = history_hash]

\* add_balance that updates last_send_index the way subtract_balance does.
add_balance_moving_send_index(w, difference, history_hash) ==
    [w EXCEPT !.balance = w.balance + difference,
              !.history_len = w.history_len + 1,
              !.last_send_index = w.history_len,
              !.history_hash = history_hash]

\* add_balance that leaves the balance alone.
add_balance_forgotten(w, difference, history_hash) ==
    [w EXCEPT !.history_len = w.history_len + 1,
              !.history_hash = history_hash]

add_balance(w, difference, history_hash) ==
    [w EXCEPT !.balance = w.balance + difference,
              !.history_len = w.history_len + 1,
              !.history_hash = history_hash]

\* set_unaccepted_transfers_hash that passes the root in the place of the
\* history root.
set_unaccepted_transfers_hash_swapped(w, hash) ==
    [w EXCEPT !.history_hash = hash]

set_unaccepted_transfers_hash(w, hash) ==
    [w EXCEPT !.unaccepted_transfers_hash = hash]

\* ------------------------------------------------------ schema snapshot
\* The fork handed to a handler, as one record.
Fork ==
    [wallets |-> wallets,
     history |-> history,
     unaccepted |-> unaccepted_transfers,
     rollback |-> rollback_by_height,
     past |-> past_balances]

Merge(s) ==
    /\ wallets' = s.wallets
    /\ history' = s.history
    /\ unaccepted_transfers' = s.unaccepted
    /\ rollback_by_height' = s.rollback
    /\ past_balances' = s.past

rollback_transfers(s, h) == {p[2] : p \in {q \in s.rollback : q[1] = h}}

past_balance(s, key, index) ==
    IF index \in DOMAIN s.past[key].items
    THEN [some |-> TRUE, value |-> s.past[key].items[index]]
    ELSE [some |-> FALSE, value |-> 0]

\* Committed Transfer with the given hash, if any.
IsCommittedTransfer(txs, id) ==
    /\ id \in 1 .. Len(txs)
    /\ txs[id].kind = "Transfer"

\* rollback_height that counts from the block after the transfer's.
rollback_height_next(txs, transfer_id) ==
    txs[transfer_id].block_height + 1 + txs[transfer_id].rollback_delay

rollback_height(txs, transfer_id) ==
    txs[transfer_id].block_height + txs[transfer_id].rollback_delay

\* ------------------------------------------------- schema transitions
\* create_wallet that does not look for a wallet of the key.
create_wallet_overwriting(s, key, id) ==
    LET hist == Append(s.history[key], EventCreateWallet(id))
        wallet == WalletInitialize(key, ListRoot(hist))
    IN [status |-> "Ok",
        s |-> [s EXCEPT !.history[key] = hist,
                        !.past[key] = SparseSet(@, 0, wallet.balance),
                        !.wallets = (key :> wallet) @@ @]]

create_wallet(s, key, id) ==
    IF key \in DOMAIN s.wallets
    THEN [status |-> "WalletExists", s |-> s]
    ELSE LET hist == Append(s.history[key], EventCreateWallet(id))
             wallet == WalletInitialize(key, ListRoot(hist))
         IN [status |-> "Ok",
             s |-> [s EXCEPT !.history[key] = hist,
                             !.past[key] = SparseSet(@, 0, wallet.balance),
                             !.wallets = (key :> wallet) @@ @]]

\* update_sender that records the transfer at the head of the history.
update_sender_prepending(s, sender, amount, id) ==
    LET key == sender.public_key
        hist == <<EventTransfer(id)>> \o s.history[key]
        updated_sender == subtract_balance(sender, amount, ListRoot(hist))
    IN [s EXCEPT !.history[key] = hist,
                 !.past[key] = SparseSet(SparseRemoveAll(@),
                                         updated_sender.history_len - 1,
                                         updated_sender.balance),
                 !.wallets[key] = updated_sender]

\* update_sender that keeps the balances cached before the transfer.
update_sender_keeping_cache(s, sender, amount, id) ==
    LET key == sender.public_key
        hist == Append(s.history[key], EventTransfer(id))
        updated_sender == subtract_balance(sender, amount, ListRoot(hist))
    IN [s EXCEPT !.history[key] = hist,
                 !.past[key] = SparseSet(@, updated_sender.history_len - 1,
                                         updated_sender.balance),
                 !.wallets[key] = updated_sender]

update_sender(s, sender, amount, id) ==
    LET key == sender.public_key
        hist == Append(s.history[key], EventTransfer(id))
        updated_sender == subtract_balance(sender, amount, ListRoot(hist))
    IN [s EXCEPT !.history[key] = hist,
                 !.past[key] = SparseSet(SparseRemoveAll(@),
                                         updated_sender.history_len - 1,
                                         updated_sender.balance),
                 !.wallets[key] = updated_sender]

\* add_unaccepted_payment that schedules the rollback one block later.
add_unaccepted_payment_late(s, receiver, transfer, id, h) ==
    LET key == receiver.public_key
        unaccepted == s.unaccepted[key] \cup {id}
        height_ == (h + 1) + transfer.rollback_delay + 1
    IN [s EXCEPT !.unaccepted[key] = unaccepted,
                 !.rollback = @ \cup {<<height_, id>>},
                 !.wallets[key] =
                     set_unaccepted_transfers_hash(receiver, MapRoot(unaccepted))]

\* add_unaccepted_payment that reads height() without next().
add_unaccepted_payment_early(s, receiver, transfer, id, h) ==
    LET key == receiver.public_key
        unaccepted == s.unaccepted[key] \cup {id}
        height_ == h + transfer.rollback_delay
    IN [s EXCEPT !.unaccepted[key] = unaccepted,
                 !.rollback = @ \cup {<<height_, id>>},
                 !.wallets[key] =
                     set_unaccepted_transfers_hash(receiver, MapRoot(unaccepted))]

\* add_unaccepted_payment that schedules the hash of the transaction before
\* the transfer.
add_unaccepted_payment_foreign_hash(s, receiver, transfer, id, h) ==
    LET key == receiver.public_key
        unaccepted == s.unaccepted[key] \cup {id}
        height_ == (h + 1) + transfer.rollback_delay
    IN [s EXCEPT !.unaccepted[key] = unaccepted,
                 !.rollback = @ \cup {<<height_, id - 1>>},
                 !.wallets[key] =
                     set_unaccepted_transfers_hash(receiver, MapRoot(unaccepted))]

add_unaccepted_payment(s, receiver, transfer, id, h) ==
    LET key == receiver.public_key
        unaccepted == s.unaccepted[key] \cup {id}
        height_ == (h + 1) + transfer.rollback_delay
    IN [s EXCEPT !.unaccepted[key] = unaccepted,
                 !.rollback = @ \cup {<<height_, id>>},
                 !.wallets[key] =
                     set_unaccepted_transfers_hash(receiver, MapRoot(unaccepted))]

\* accept_payment that leaves the rollback index alone.
remove_from_rollback_index_skipped(s, txs, transfer_id, h) ==
    [status |-> "Ok", s |-> s]

\* The last step of accept_payment: the transfer leaves the rollback index.
\* A failed debug_assert! is the status "Panic".
remove_from_rollback_index(s, txs, transfer_id, h) ==
    LET height_ == rollback_height(txs, transfer_id)
    IN IF \/ height_ < h
          \/ <<height_, transfer_id>> \notin s.rollback
       THEN [status |-> "Panic", s |-> s]
       ELSE [status |-> "Ok",
             s |-> [s EXCEPT !.rollback = @ \ {<<height_, transfer_id>>}]]

\* accept_payment that does not look the transfer up in the unaccepted set.
accept_payment_unchecked(s, txs, transfer, transfer_id, h) ==
    LET receiver == transfer.to
        hist == Append(s.history[receiver], EventTransfer(transfer_id))
        payments == s.unaccepted[receiver] \ {transfer_id}
        receiver_wallet ==
            set_unaccepted_transfers_hash(
                add_balance(s.wallets[receiver], transfer.amount, ListRoot(hist)),
                MapRoot(payments))
        s3 == [s EXCEPT !.history[receiver] = hist,
                        !.unaccepted[receiver] = payments,
                        !.past[receiver] = SparsePush(@, receiver_wallet.balance),
                        !.wallets[receiver] = receiver_wallet]
    IN remove_from_rollback_index(s3, txs, transfer_id, h)

\* accept_payment that empties the receiver's unaccepted set.
accept_payment_clearing(s, txs, transfer, transfer_id, h) ==
    LET receiver == transfer.to
        hist == Append(s.history[receiver], EventTransfer(transfer_id))
        s1 == [s EXCEPT !.history[receiver] = hist]
    IN IF transfer_id \notin s1.unaccepted[receiver]
       THEN [status |-> "UnknownTransfer", s |-> s1]
       ELSE
       LET payments == {}
           s2 == [s1 EXCEPT !.unaccepted[receiver] = payments]
           receiver_wallet ==
               set_unaccepted_transfers_hash(
                   add_balance(s2.wallets[receiver], transfer.amount, ListRoot(hist)),
                   MapRoot(payments))
           s3 == [s2 EXCEPT !.past[receiver] = SparsePush(@, receiver_wallet.balance),
                            !.wallets[receiver] = receiver_wallet]
       IN remove_from_rollback_index(s3, txs, transfer_id, h)

\* The state in the result is the fork as the handler leaves it; on an error
\* it holds the writes made before the early return.
accept_payment(s, txs, transfer, transfer_id, h) ==
    LET receiver == transfer.to
        hist == Append(s.history[receiver], EventTransfer(transfer_id))
        s1 == [s EXCEPT !.history[receiver] = hist]
    IN IF transfer_id \notin s1.unaccepted[receiver]
       THEN [status |-> "UnknownTransfer", s |-> s1]
       ELSE
       LET payments == s1.unaccepted[receiver] \ {transfer_id}
           s2 == [s1 EXCEPT !.unaccepted[receiver] = payments]
       IN IF receiver \notin DOMAIN s2.wallets
          THEN [status |-> "UnregisteredReceiver", s |-> s2]
          ELSE
          LET receiver_wallet ==
                  set_unaccepted_transfers_hash(
                      add_balance(s2.wallets[receiver], transfer.amount, ListRoot(hist)),
                      MapRoot(payments))
              s3 == [s2 EXCEPT !.past[receiver] = SparsePush(@, receiver_wallet.balance),
                               !.wallets[receiver] = receiver_wallet]
          IN remove_from_rollback_index(s3, txs, transfer_id, h)

\* rollback_single that does not remember the refunded balance.
rollback_single_uncached(s, transfer, transfer_hash) ==
    LET key == transfer.from
        hist == Append(s.history[key], EventRollback(transfer_hash))
        sender_wallet == add_balance(s.wallets[key], transfer.amount, ListRoot(hist))
    IN [s EXCEPT !.history[key] = hist,
                 !.wallets[key] = sender_wallet]

\* rollback_single that replaces the cache by the new balance, the way
\* update_sender does.
rollback_single_purging_cache(s, transfer, transfer_hash) ==
    LET key == transfer.from
        hist == Append(s.history[key], EventRollback(transfer_hash))
        sender_wallet == add_balance(s.wallets[key], transfer.amount, ListRoot(hist))
    IN [s EXCEPT !.history[key] = hist,
                 !.wallets[key] = sender_wallet,
                 !.past[key] = SparseSet(SparseRemoveAll(@),
                                         sender_wallet.history_len - 1,
                                         sender_wallet.balance)]

\* rollback_single that records the event and refunds nothing.
rollback_single_without_refund(s, transfer, transfer_hash) ==
    LET key == transfer.from
        hist == Append(s.history[key], EventRollback(transfer_hash))
        sender_wallet == add_balance(s.wallets[key], 0, ListRoot(hist))
    IN [s EXCEPT !.history[key] = hist,
                 !.wallets[key] = sender_wallet,
                 !.past[key] = SparsePush(@, sender_wallet.balance)]

rollback_single(s, transfer, transfer_hash) ==
    LET key == transfer.from
        hist == Append(s.history[key], EventRollback(transfer_hash))
        sender_wallet == add_balance(s.wallets[key], transfer.amount, ListRoot(hist))
    IN [s EXCEPT !.history[key] = hist,
                 !.wallets[key] = sender_wallet,
                 !.past[key] = SparsePush(@, sender_wallet.balance)]

\* Loop iteration that leaves the hash in the bucket.
RollbackOne_keeping_bucket(s, txs, h, hash) ==
    LET transfer == txs[hash]
        s1 == rollback_single(s, transfer, hash)
    IN [s1 EXCEPT !.unaccepted[transfer.to] = @ \ {hash}]

\* Loop iteration that leaves the hash in the receiver's unaccepted set.
RollbackOne_keeping_unaccepted(s, txs, h, hash) ==
    LET transfer == txs[hash]
        s1 == rollback_single(s, transfer, hash)
    IN [s1 EXCEPT !.rollback = @ \ {<<h, hash>>}]

\* One iteration of the loop of do_rollback.
RollbackOne(s, txs, h, hash) ==
    LET transfer == txs[hash]
        s1 == rollback_single(s, transfer, hash)
    IN [s1 EXCEPT !.rollback = @ \ {<<h, hash>>},
                  !.unaccepted[transfer.to] = @ \ {hash}]

RECURSIVE RollbackLoop(_, _, _, _, _)
RollbackLoop(s, txs, h, transfer_ids, updated) ==
    IF transfer_ids = <<>>
    THEN [s |-> s, updated |-> updated]
    ELSE LET hash == Head(transfer_ids)
             to == txs[hash].to
             s2 == RollbackOne(s, txs, h, hash)
         IN RollbackLoop(s2, txs, h, Tail(transfer_ids),
                         (to :> MapRoot(s2.unaccepted[to])) @@ updated)

\* do_rollback that does not store the new roots of the unaccepted sets in
\* the receivers' wallets.
do_rollback_stale_hashes(s, txs, h, transfer_ids) ==
    RollbackLoop(s, txs, h, transfer_ids, [k \in {} |-> ZeroHash]).s

\* do_rollback that keeps, for every receiver, the root computed when the
\* first of its transfers was removed.
do_rollback_first_root(s, txs, h, transfer_ids) ==
    LET r == RollbackLoop(s, txs, h, transfer_ids, [k \in {} |-> ZeroHash])
        ws == r.s.wallets
        first(k) ==
            transfer_ids[CHOOSE i \in DOMAIN transfer_ids :
                            /\ txs[transfer_ids[i]].to = k
                            /\ \A j \in 1 .. i - 1 : txs[transfer_ids[j]].to # k]
    IN [r.s EXCEPT !.wallets =
            [k \in DOMAIN ws |->
                IF k \in DOMAIN r.updated
                THEN set_unaccepted_transfers_hash(
                         ws[k], MapRoot(s.unaccepted[k] \ {first(k)}))
                ELSE ws[k]]]

\* do_rollback that writes the new roots into the wallet records it read
\* before the loop.
do_rollback_lost_update(s, txs, h, transfer_ids) ==
    LET r == RollbackLoop(s, txs, h, transfer_ids, [k \in {} |-> ZeroHash])
        ws == r.s.wallets
    IN [r.s EXCEPT !.wallets =
            [k \in DOMAIN ws |->
                IF k \in DOMAIN r.updated
                THEN set_unaccepted_transfers_hash(s.wallets[k], r.updated[k])
                ELSE ws[k]]]

\* transfer_ids is the bucket of height h in its iteration order.
do_rollback(s, txs, h, transfer_ids) ==
    LET r == RollbackLoop(s, txs, h, transfer_ids, [k \in {} |-> ZeroHash])
        ws == r.s.wallets
    IN [r.s EXCEPT !.wallets =
            [k \in DOMAIN ws |->
                IF k \in DOMAIN r.updated
                THEN set_unaccepted_transfers_hash(ws[k], r.updated[k])
                ELSE ws[k]]]

\* --------------------------------------------------------- transactions
Tx(kind, key, from, to, delay, hlen, amount, receiver, transfer_id) ==
    [kind |-> kind, key |-> key, from |-> from, to |-> to,
     rollback_delay |-> delay, history_len |-> hlen, amount |-> amount,
     receiver |-> receiver, transfer_id |-> transfer_id]

CreateWalletTx(key) == Tx("CreateWallet", key, NoKey, NoKey, 0, 0, 0, NoKey, 0)
TransferTx(from, to, delay, hlen, amount) ==
    Tx("Transfer", NoKey, from, to, delay, hlen, amount, NoKey, 0)
AcceptTx(receiver, transfer_id) ==
    Tx("Accept", NoKey, NoKey, NoKey, 0, 0, 0, receiver, transfer_id)

\* SimpleRangeProof::verify of a proof made for the committed value.
RangeProofVerify(value) == value >= 0

verify_stateless(t) ==
    /\ t.history_len > 0
    /\ RangeProofVerify(t.amount - MIN_TRANSFER_AMOUNT)

\* <Transfer as Transaction>::verify with the upper bound of the delay
\* included in the range.
TransferVerify_inclusive_end(t) ==
    /\ ~(\/ ROLLBACK_DELAY_START > t.rollback_delay
         \/ ROLLBACK_DELAY_END < t.rollback_delay)
    /\ t.from # t.to
    /\ verify_stateless(t)

TransferVerify(t) ==
    /\ ~(\/ ROLLBACK_DELAY_START > t.rollback_delay
         \/ ROLLBACK_DELAY_END <= t.rollback_delay)
    /\ t.from # t.to
    /\ verify_stateless(t)

\* verify_stateful that accepts every proof.
verify_stateful_unchecked(t, balance) == TRUE

verify_stateful(t, balance) == RangeProofVerify(balance - t.amount)

HistoryRefCheck(s, sender, t) ==
    IF sender.last_send_index + 1 > t.history_len
    THEN "OutdatedHistory"
    ELSE IF ~past_balance(s, t.from, t.history_len - 1).some
         THEN "InvalidHistoryRef"
         ELSE "Ok"

ReferencedBalance(s, t) == past_balance(s, t.from, t.history_len - 1).value

CreateWalletExecute(s, t, id) == create_wallet(s, t.key, id)

\* <Transfer as Transaction>::execute that looks at the receiver first.
TransferExecute_receiver_first(s, t, id, h) ==
    IF t.to \notin DOMAIN s.wallets
    THEN [status |-> "UnregisteredReceiver", s |-> s]
    ELSE IF t.from \notin DOMAIN s.wallets
    THEN [status |-> "UnregisteredSender", s |-> s]
    ELSE LET sender == s.wallets[t.from]
             receiver == s.wallets[t.to]
             ref == HistoryRefCheck(s, sender, t)
         IN IF ref # "Ok"
            THEN [status |-> ref, s |-> s]
            ELSE IF ~verify_stateful(t, ReferencedBalance(s, t))
            THEN [status |-> "IncorrectProof", s |-> s]
            ELSE [status |-> "Ok",
                  s |-> add_unaccepted_payment(
                            update_sender(s, sender, t.amount, id),
                            receiver, t, id, h)]

TransferExecute(s, t, id, h) ==
    IF t.from \notin DOMAIN s.wallets
    THEN [status |-> "UnregisteredSender", s |-> s]
    ELSE IF t.to \notin DOMAIN s.wallets
    THEN [status |-> "UnregisteredReceiver", s |-> s]
    ELSE LET sender == s.wallets[t.from]
             receiver == s.wallets[t.to]
             ref == HistoryRefCheck(s, sender, t)
         IN IF ref # "Ok"
            THEN [status |-> ref, s |-> s]
            ELSE IF ~verify_stateful(t, ReferencedBalance(s, t))
            THEN [status |-> "IncorrectProof", s |-> s]
            ELSE [status |-> "Ok",
                  s |-> add_unaccepted_payment(
                            update_sender(s, sender, t.amount, id),
                            receiver, t, id, h)]

\* Accept::execute without the comparison of the signer with the receiver.
AcceptExecute_unauthorized(s, txs, t, h) ==
    IF ~IsCommittedTransfer(txs, t.transfer_id)
    THEN [status |-> "UnknownTransfer", s |-> s]
    ELSE accept_payment(s, txs, txs[t.transfer_id], t.transfer_id, h)

\* Accept::execute that asks accept_payment before it compares the signer.
AcceptExecute_pending_first(s, txs, t, h) ==
    IF ~IsCommittedTransfer(txs, t.transfer_id)
    THEN [status |-> "UnknownTransfer", s |-> s]
    ELSE LET transfer == txs[t.transfer_id]
             r == accept_payment(s, txs, transfer, t.transfer_id, h)
         IN IF r.status # "Ok"
            THEN r
            ELSE IF transfer.to # t.receiver
            THEN [status |-> "UnauthorizedAccept", s |-> s]
            ELSE r

AcceptExecute(s, txs, t, h) ==
    IF ~IsCommittedTransfer(txs, t.transfer_id)
    THEN [status |-> "UnknownTransfer", s |-> s]
    ELSE LET transfer == txs[t.transfer_id]
         IN IF transfer.to # t.receiver
            THEN [status |-> "UnauthorizedAccept", s |-> s]
            ELSE accept_payment(s, txs, transfer, t.transfer_id, h)

\* One transaction of the block being built: the handler runs on the fork,
\* the fork is kept when the handler returns Ok and discarded otherwise, and
\* the transaction is stored with its location and status either way.
\* Entry of the core transactions table: the transaction, its location and
\* its execution status.
Stored(t, block_height, status) ==
    [kind |-> t.kind, key |-> t.key, from |-> t.from, to |-> t.to,
     rollback_delay |-> t.rollback_delay, history_len |-> t.history_len,
     amount |-> t.amount, receiver |-> t.receiver,
     transfer_id |-> t.transfer_id,
     block_height |-> block_height, status |-> status]

\* A commit that keeps the fork of a handler that returned an error.
Commit_keeping_fork(t, r) ==
    /\ transactions' = Append(transactions, Stored(t, height + 1, r.status))
    /\ Merge(r.s)
    /\ UNCHANGED <<height, rolled_back_transfers, debugger_probe, shutdown,
                   rx_dropped, debug_events>>
    /\ UNCHANGED client_vars

Commit(t, r) ==
    /\ transactions' = Append(transactions, Stored(t, height + 1, r.status))
    /\ Merge(IF r.status = "Ok" THEN r.s ELSE Fork)
    /\ UNCHANGED <<height, rolled_back_transfers, debugger_probe, shutdown,
                   rx_dropped, debug_events>>
    /\ UNCHANGED client_vars

NextId == Len(transactions) + 1

Failed == {i \in 1 .. Len(transactions) : transactions[i].status # "Ok"}

\* The environment submits at most MaxTxs transactions, at most max_failed of
\* which fail.
Admit(r, max_failed) ==
    /\ Len(transactions) < MaxTxs
    /\ r.status # "Ok" => Cardinality(Failed) < max_failed

SubmitCreateWallet(max_failed) ==
    \E key \in Keys :
        LET t == CreateWalletTx(key)
            r == CreateWalletExecute(Fork, t, NextId)
        IN Admit(r, max_failed) /\ Commit(t, r)

SubmitTransfer(max_failed, delays, amounts) ==
    \E from \in Keys, to \in Keys, delay \in delays,
       hlen \in HistoryLens, amount \in amounts :
        LET t == TransferTx(from, to, delay, hlen, amount)
            r == TransferExecute(Fork, t, NextId, height)
        IN TransferVerify(t) /\ Admit(r, max_failed) /\ Commit(t, r)

SubmitAccept(max_failed) ==
    \E receiver \in Keys, transfer_id \in 1 .. NextId :
        LET t == AcceptTx(receiver, transfer_id)
            r == AcceptExecute(Fork, transactions, t, height)
        IN Admit(r, max_failed) /\ Commit(t, r)

CreateWallet == SubmitCreateWallet(MaxFailed)
Transfer == SubmitTransfer(MaxFailed, Delays, Amounts)
Accept == SubmitAccept(MaxFailed)

\* The transactions of a debugging session; both wallets being registered,
\* no further CreateWallet is submitted.
DebuggedTransfer == SubmitTransfer(MaxDebuggerFailed, Delays, Amounts)
DebuggedAccept == SubmitAccept(MaxDebuggerFailed)

\* The transfers of the end-to-end scenarios: 333_333 tokens, delay 10.
ScenarioTransfer == SubmitTransfer(MaxFailed, {10}, {333333})

\* ---------------------------------------------------------- block commit
Orders(S) ==
    {o \in [1 .. Cardinality(S) -> S] :
        \A i, j \in 1 .. Cardinality(S) : i # j => o[i] # o[j]}

SeqRange(q) == {q[i] : i \in 1 .. Len(q)}

RolledBack(id, h) == [transfer |-> id, height |-> h]

\* on_after_commit that reports the height of the previous block.
on_after_commit_stale_height(order, h) ==
    [i \in 1 .. Len(order) |-> RolledBack(order[i], h - 1)]

\* The events DebuggerProbe::on_after_commit sends for the block of height h.
on_after_commit(order, h) ==
    [i \in 1 .. Len(order) |-> RolledBack(order[i], h)]

\* Transactions of the block being built.
BlockTxs == {i \in 1 .. Len(transactions) : transactions[i].block_height = height + 1}

OkTransfers ==
    {i \in 1 .. Len(transactions) :
        transactions[i].kind = "Transfer" /\ transactions[i].status = "Ok"}

\* A block with no transaction, built after the time lock of every transfer
\* has expired: committing it changes nothing but `height`, and every handler
\* reads heights only relative to each other, so the model leaves such
\* blocks out.
IdleBlock ==
    /\ BlockTxs = {}
    /\ \A i \in OkTransfers : rollback_height(transactions, i) < height

\* A commit whose before_commit returns, without the rollback, when the probe
\* is shut down.
CommitBlock_shutdown_skips_rollback ==
    /\ height < MaxHeight
    /\ ~IdleBlock
    /\ \E order \in Orders(rollback_transfers(Fork, height)) :
         LET probing == debugger_probe /\ ~shutdown
             failed == probing /\ rx_dropped /\ order # <<>>
         IN /\ rolled_back_transfers' =
                   IF probing THEN SeqRange(order) ELSE rolled_back_transfers
            /\ Merge(IF debugger_probe /\ shutdown
                     THEN Fork
                     ELSE do_rollback(Fork, transactions, height, order))
            /\ height' = height + 1
            /\ debug_events' =
                   IF probing /\ ~rx_dropped
                   THEN debug_events \o on_after_commit(order, height + 1)
                   ELSE debug_events
            /\ shutdown' = (shutdown \/ failed)
    /\ UNCHANGED <<transactions, debugger_probe, rx_dropped>>
    /\ UNCHANGED client_vars

\* Service::before_commit, the commit of the block, Service::after_commit.
CommitBlock ==
    /\ height < MaxHeight
    /\ ~IdleBlock
    /\ \E order \in Orders(rollback_transfers(Fork, height)) :
         LET probing == debugger_probe /\ ~shutdown
             failed == probing /\ rx_dropped /\ order # <<>>
         IN /\ rolled_back_transfers' =
                   IF probing THEN SeqRange(order) ELSE rolled_back_transfers
            /\ Merge(do_rollback(Fork, transactions, height, order))
            /\ height' = height + 1
            /\ debug_events' =
                   IF probing /\ ~rx_dropped
                   THEN debug_events \o on_after_commit(order, height + 1)
                   ELSE debug_events
            /\ shutdown' = (shutdown \/ failed)
    /\ UNCHANGED <<transactions, debugger_probe, rx_dropped>>
    /\ UNCHANGED client_vars

DropDebugger ==
    /\ debugger_probe
    /\ ~rx_dropped
    /\ rx_dropped' = TRUE
    /\ UNCHANGED <<height, transactions, wallets, history, unaccepted_transfers,
                   rollback_by_height, past_balances, rolled_back_transfers,
                   debugger_probe, shutdown, debug_events>>
    /\ UNCHANGED client_vars

\* The schema of a blockchain that holds the genesis block only.
Genesis ==
    [wallets |-> [k \in {} |-> 0],
     history |-> [k \in Keys |-> <<>>],
     unaccepted |-> [k \in Keys |-> {}],
     rollback |-> {},
     past |-> [k \in Keys |-> EmptySparse]]

\* -------------------------------------------------------------- secrets
\* A u64 is kept at its width as four 16-bit limbs, least significant first.
Limb == 65536
U64_MAX == <<Limb - 1, Limb - 1, Limb - 1, Limb - 1>>

\* The u64 of a number below 2^31.
U64(n) == <<n % Limb, n \div Limb, 0, 0>>

\* a < b for two u64.
U64Less(a, b) ==
    \E i \in 1 .. 4 :
        /\ a[i] < b[i]
        /\ \A j \in i + 1 .. 4 : a[j] = b[j]

\* u64::checked_add: `some` is FALSE where the sum does not fit.
checked_add(a, b) ==
    LET s1 == a[1] + b[1]
        s2 == a[2] + b[2] + s1 \div Limb
        s3 == a[3] + b[3] + s2 \div Limb
        s4 == a[4] + b[4] + s3 \div Limb
    IN [some |-> s4 < Limb,
        value |-> <<s1 % Limb, s2 % Limb, s3 % Limb, s4 % Limb>>]

\* u64::checked_sub: `some` is FALSE where the difference is negative.
checked_sub(a, b) ==
    LET d1 == a[1] - b[1]
        d2 == a[2] - b[2] - (IF d1 < 0 THEN 1 ELSE 0)
        d3 == a[3] - b[3] - (IF d2 < 0 THEN 1 ELSE 0)
        d4 == a[4] - b[4] - (IF d3 < 0 THEN 1 ELSE 0)
    IN [some |-> d4 >= 0,
        value |-> <<d1 % Limb, d2 % Limb, d3 % Limb, d4 % Limb>>]

\* An Opening: the committed value; `panicked` marks the result of an
\* operation whose `expect` failed. The blinding factor, a scalar whose
\* arithmetic cannot fail, is left out.
\* Opening::with_no_blinding
OpeningOf(value) == [value |-> value, panicked |-> FALSE]

\* Addition of Openings with u64::wrapping_add in place of checked_add.
OpeningAdd_wrapping(lhs, rhs) ==
    [value |-> checked_add(lhs.value, rhs.value).value,
     panicked |-> lhs.panicked \/ rhs.panicked]

\* impl Add / AddAssign for Opening
OpeningAdd(lhs, rhs) ==
    LET sum == checked_add(lhs.value, rhs.value)
    IN [value |-> sum.value,
        panicked |-> lhs.panicked \/ rhs.panicked \/ ~sum.some]

\* impl Sub / SubAssign for Opening
OpeningSub(lhs, rhs) ==
    LET difference == checked_sub(lhs.value, rhs.value)
    IN [value |-> difference.value,
        panicked |-> lhs.panicked \/ rhs.panicked \/ ~difference.some]

\* Commitment::verify of a balance of the ledger, which the model keeps as
\* the committed value.
CommitmentVerify(commitment, opening) ==
    /\ ~opening.panicked
    /\ commitment >= 0
    /\ opening.value = U64(commitment)

\* SecretState::from_keypair
SecretStateNew(verifying_key) ==
    [verifying_key |-> verifying_key,
     balance_opening |-> OpeningOf(U64(0)),
     history_len |-> 0,
     panicked |-> FALSE]

\* SecretState::initialize. Its debug_assert on the opening cannot fire: a
\* state with history_len = 0 still has the opening from_keypair gave it.
SecretStateInitialize(state) ==
    IF state.history_len # 0
    THEN [state EXCEPT !.panicked = TRUE]
    ELSE [state EXCEPT !.balance_opening = OpeningOf(U64(INITIAL_BALANCE)),
                       !.history_len = 1]

\* The opening the sender sealed into the transfer (Transfer::create),
\* decrypted by the sender or the receiver.
TransferOpening(transfer) == OpeningOf(U64(transfer.amount))

\* The state after `balance_opening` has been replaced and the event counted.
SecretStateUpdated(state, opening) ==
    [state EXCEPT !.balance_opening = opening,
                  !.history_len = IF opening.panicked THEN @ ELSE @ + 1,
                  !.panicked = @ \/ opening.panicked]

\* SecretState::transfer
SecretStateTransfer(state, transfer) ==
    IF state.verifying_key = transfer.from
    THEN SecretStateUpdated(state, OpeningSub(state.balance_opening,
                                              TransferOpening(transfer)))
    ELSE IF state.verifying_key = transfer.to
    THEN SecretStateUpdated(state, OpeningAdd(state.balance_opening,
                                              TransferOpening(transfer)))
    ELSE [state EXCEPT !.panicked = TRUE]

\* SecretState::rollback that forgets to count the event.
SecretStateRollback_uncounted(state, transfer) ==
    IF state.verifying_key = transfer.from
    THEN [state EXCEPT !.balance_opening =
                           OpeningAdd(@, TransferOpening(transfer))]
    ELSE [state EXCEPT !.panicked = TRUE]

\* SecretState::rollback
SecretStateRollback(state, transfer) ==
    IF state.verifying_key = transfer.from
    THEN SecretStateUpdated(state, OpeningAdd(state.balance_opening,
                                              TransferOpening(transfer)))
    ELSE [state EXCEPT !.panicked = TRUE]

\* SecretState::corresponds_to
SecretStateCorrespondsTo(state, wallet) ==
    /\ wallet.public_key = state.verifying_key
    /\ CommitmentVerify(wallet.balance, state.balance_opening)

\* The arguments of SecretState::create_transfer.
Request(amount, receiver, rollback_delay) ==
    [amount |-> amount, receiver |-> receiver, rollback_delay |-> rollback_delay]

\* No transfer has been asked for.
NotCreated ==
    [status |-> "None", transfer |-> TransferTx(NoKey, NoKey, 0, 0, 0),
     request |-> Request(0, NoKey, 0)]

\* A panic of create_transfer: no transaction is returned.
CreatePanicked(request) ==
    [status |-> "Panic", transfer |-> TransferTx(NoKey, NoKey, 0, 0, 0),
     request |-> request]

\* Transfer::create that lets the owner pay itself.
TransferCreate_to_self(state, request) ==
    LET transferred == OpeningOf(U64(request.amount))
        remaining_balance == OpeningSub(state.balance_opening, transferred)
    IN IF ~(ROLLBACK_DELAY_START <= request.rollback_delay)
       THEN CreatePanicked(request)
       ELSE IF ~(request.rollback_delay < ROLLBACK_DELAY_END)
       THEN CreatePanicked(request)
       ELSE IF ~(request.amount >= MIN_TRANSFER_AMOUNT)
       THEN CreatePanicked(request)
       ELSE IF U64Less(state.balance_opening.value, U64(request.amount))
       THEN CreatePanicked(request)
       ELSE IF remaining_balance.panicked
       THEN CreatePanicked(request)
       ELSE [status |-> "Ok",
             transfer |-> TransferTx(state.verifying_key, request.receiver,
                                     request.rollback_delay, state.history_len,
                                     request.amount),
             request |-> request]

\* Transfer::create and the `expect` of SecretState::create_transfer. The
\* range proofs of a u64 always exist, so `create` never returns None.
TransferCreate(state, request) ==
    LET transferred == OpeningOf(U64(request.amount))
        amount_opening ==
            OpeningSub(transferred, OpeningOf(U64(MIN_TRANSFER_AMOUNT)))
        remaining_balance == OpeningSub(state.balance_opening, transferred)
    IN IF ~(ROLLBACK_DELAY_START <= request.rollback_delay)
       THEN CreatePanicked(request)
       ELSE IF ~(request.rollback_delay < ROLLBACK_DELAY_END)
       THEN CreatePanicked(request)
       ELSE IF ~(request.amount >= MIN_TRANSFER_AMOUNT)
       THEN CreatePanicked(request)
       ELSE IF U64Less(state.balance_opening.value, U64(request.amount))
       THEN CreatePanicked(request)
       ELSE IF request.receiver = state.verifying_key
       THEN CreatePanicked(request)
       ELSE IF amount_opening.panicked \/ remaining_balance.panicked
       THEN CreatePanicked(request)
       ELSE [status |-> "Ok",
             transfer |-> TransferTx(state.verifying_key, request.receiver,
                                     request.rollback_delay, state.history_len,
                                     request.amount),
             request |-> request]

\* No owner is at work: a fresh SecretState, nothing created or computed.
NoSecrets ==
    /\ secret_state = SecretStateNew(NoKey)
    /\ created = NotCreated
    /\ owner_opening = OpeningOf(U64(0))
    /\ operation = [op |-> "none", rhs |-> OpeningOf(U64(0)), index |-> 0]

\* No light client is being served: no proof has been built or verified.
NoClient ==
    /\ client_anchor = [validators |-> <<>>]
    /\ served_block_proof = [block |-> [height |-> 0, state_hash |-> ZeroHash],
                             precommits |-> <<>>]
    /\ verdict = "Unverified"
    /\ NoSecrets

\* The ledger is left alone and no proof is asked for.
NoLedgerStep ==
    UNCHANGED <<height, transactions, wallets, history, unaccepted_transfers,
                rollback_by_height, past_balances, rolled_back_transfers,
                debugger_probe, shutdown, rx_dropped, debug_events,
                client_anchor, served_block_proof, verdict>>

\* The ledger every scenario of tests/tx_logic.rs starts from: block 1 holds
\* the CreateWallet transactions of alice and bob, executed on the genesis
\* schema; no transfer is pending, so its before_commit hook found an empty
\* bucket.
Registered ==
    create_wallet(create_wallet(Genesis, "alice", 1).s, "bob", 2).s

Registration ==
    /\ height = 1
    /\ transactions = <<Stored(CreateWalletTx("alice"), 1, "Ok"),
                        Stored(CreateWalletTx("bob"), 1, "Ok")>>
    /\ wallets = Registered.wallets
    /\ history = Registered.history
    /\ unaccepted_transfers = Registered.unaccepted
    /\ rollback_by_height = Registered.rollback
    /\ past_balances = Registered.past
    /\ rolled_back_transfers = {}
    /\ shutdown = FALSE
    /\ rx_dropped = FALSE
    /\ debug_events = <<>>

\* Service::default()
Init == Registration /\ NoClient /\ debugger_probe = FALSE

\* Service::debug(options)
InitDebugger == Registration /\ NoClient /\ debugger_probe = TRUE

\* TestKitBuilder::validator().with_service(CurrencyService::default())
\* .create(): nothing but the genesis block, no wallet.
InitGenesis ==
    /\ height = 0
    /\ transactions = <<>>
    /\ wallets = Genesis.wallets
    /\ history = Genesis.history
    /\ unaccepted_transfers = Genesis.unaccepted
    /\ rollback_by_height = Genesis.rollback
    /\ past_balances = Genesis.past
    /\ rolled_back_transfers = {}
    /\ debugger_probe = FALSE
    /\ shutdown = FALSE
    /\ rx_dropped = FALSE
    /\ debug_events = <<>>
    /\ NoClient

\* The transactions of a network that starts without wallets.
GenesisCreateWallet ==
    Len(transactions) < MaxGenesisTxs /\ SubmitCreateWallet(MaxFailed)
GenesisTransfer ==
    /\ Len(transactions) < MaxGenesisTxs
    /\ SubmitTransfer(MaxFailed, {ROLLBACK_DELAY_START}, Amounts)
GenesisAccept ==
    Len(transactions) < MaxGenesisTxs /\ SubmitAccept(MaxFailed)

Next ==
    \/ CreateWallet
    \/ Transfer
    \/ Accept
    \/ CommitBlock

NextDebugger ==
    \/ DebuggedTransfer
    \/ DebuggedAccept
    \/ CommitBlock
    \/ DropDebugger

NextScenario ==
    \/ CreateWallet
    \/ ScenarioTransfer
    \/ Accept
    \/ CommitBlock

NextGenesis ==
    \/ GenesisCreateWallet
    \/ GenesisTransfer
    \/ GenesisAccept
    \/ CommitBlock

Spec == Init /\ [][Next]_vars

SpecScenario == Init /\ [][NextScenario]_vars

SpecGenesis == InitGenesis /\ [][NextGenesis]_vars

SpecDebugger == InitDebugger /\ [][NextDebugger]_vars

TypeOK ==
    /\ height \in 0 .. MaxHeight
    /\ Len(transactions) <= MaxTxs
    /\ DOMAIN wallets \subseteq Keys

\* ------------------------------------------------------------ properties
\* Positions (1-based) of the event in the history of key.
EventPositions(key, event) ==
    {p \in 1 .. Len(history[key]) : history[key][p] = event}

Transfers == {i \in 1 .. Len(transactions) : transactions[i].kind = "Transfer"}

\* The transfer is in the unaccepted set of its receiver.
Pending(i) == i \in unaccepted_transfers[transactions[i].to]

\* Transfer events of the transfer in the receiver's history.
Credits(i) == EventPositions(transactions[i].to, EventTransfer(i))

\* Rollback events of the transfer in the sender's history.
Refunds(i) == EventPositions(transactions[i].from, EventRollback(i))

\* Successfully executed Accept transactions that reference the transfer.
Accepts(i) ==
    {j \in 1 .. Len(transactions) :
        /\ transactions[j].kind = "Accept"
        /\ transactions[j].status = "Ok"
        /\ transactions[j].transfer_id = i}

\* Heights of the rollback buckets that hold the transfer.
Buckets(i) == {p[1] : p \in {q \in rollback_by_height : q[2] = i}}

\* Height of the block the transaction belongs to.
CommitHeight(i) == transactions[i].block_height

RECURSIVE SumAmounts(_)
SumAmounts(ids) ==
    IF ids = {} THEN 0
    ELSE LET i == CHOOSE x \in ids : TRUE
         IN transactions[i].amount + SumAmounts(ids \ {i})

RECURSIVE SumBalances(_)
SumBalances(keys) ==
    IF keys = {} THEN 0
    ELSE LET k == CHOOSE x \in keys : TRUE
         IN wallets[k].balance + SumBalances(keys \ {k})

\* The step executes a transaction of the given kind successfully.
Executed(kind) ==
    /\ Len(transactions') = Len(transactions) + 1
    /\ transactions'[Len(transactions')].kind = kind
    /\ transactions'[Len(transactions')].status = "Ok"

C2_ResolvedOnce ==
    /\ \A i \in OkTransfers :
          /\ Cardinality(Credits(i)) + Cardinality(Refunds(i)) <= 1
          /\ Cardinality(Accepts(i)) = Cardinality(Credits(i))
          /\ Pending(i) <=> (Credits(i) = {} /\ Refunds(i) = {})
    /\ \A i \in Transfers \ OkTransfers :
          ~Pending(i) /\ Credits(i) = {} /\ Refunds(i) = {}
    /\ \A k \in DOMAIN wallets :
          wallets[k].balance =
              INITIAL_BALANCE
              - SumAmounts({i \in OkTransfers : transactions[i].from = k})
              + SumAmounts({i \in OkTransfers :
                               transactions[i].to = k /\ Credits(i) # {}})
              + SumAmounts({i \in OkTransfers :
                               transactions[i].from = k /\ Refunds(i) # {}})

\* A transfer that was rolled back and that its receiver tried to accept
\* afterwards.
C2_Witness ==
    \E i \in OkTransfers :
        /\ Refunds(i) # {}
        /\ \E j \in 1 .. Len(transactions) :
              /\ j > i
              /\ transactions[j].kind = "Accept"
              /\ transactions[j].receiver = transactions[i].to
              /\ transactions[j].transfer_id = i
              /\ transactions[j].status # "Ok"

\* C3 as stated: the balances of all wallets sum to the initial balance times
\* the number of wallets.
C3_Original ==
    SumBalances(DOMAIN wallets) = INITIAL_BALANCE * Cardinality(DOMAIN wallets)

\* C3: the balances of all wallets plus the amounts of the pending transfers
\* sum to the initial balance times the number of wallets; the balances
\* alone do so exactly when the pending amounts sum to zero.
C3_Conservation ==
    SumBalances(DOMAIN wallets) + SumAmounts({i \in OkTransfers : Pending(i)})
        = INITIAL_BALANCE * Cardinality(DOMAIN wallets)

\* A transfer is pending and its amount is missing from the sum of balances.
C3_Witness ==
    /\ \E i \in OkTransfers : Pending(i) /\ transactions[i].amount > 0
    /\ SumBalances(DOMAIN wallets) < INITIAL_BALANCE * Cardinality(DOMAIN wallets)

\* C4: a step that executes a Transfer successfully decreases the sender's
\* balance by the amount, appends the Transfer event to the sender's history,
\* puts the hash into the receiver's unaccepted set and leaves the receiver's
\* balance as it was; a step that increases a wallet's balance is either the
\* commit of a block or a successful Accept, by that wallet, of a transfer
\* sent to it, which adds the amount of that transfer.
C4_TransferEffect ==
    [][/\ Executed("Transfer") =>
            LET i == Len(transactions')
                t == transactions'[i]
            IN /\ wallets'[t.from].balance = wallets[t.from].balance - t.amount
               /\ history'[t.from] = Append(history[t.from], EventTransfer(i))
               /\ wallets'[t.from].history_len = Len(history'[t.from])
               /\ i \in unaccepted_transfers'[t.to]
               /\ wallets'[t.to].balance = wallets[t.to].balance
       /\ \A k \in DOMAIN wallets :
            wallets'[k].balance > wallets[k].balance =>
                \/ height' = height + 1
                \/ /\ Executed("Accept")
                   /\ LET a == transactions'[Len(transactions')]
                      IN /\ a.transfer_id \in OkTransfers
                         /\ a.receiver = k
                         /\ transactions[a.transfer_id].to = k
                         /\ wallets'[k].balance =
                                wallets[k].balance + transactions[a.transfer_id].amount
      ]_vars

\* The state right after a successful Transfer, in the block being built:
\* the sender is debited, the receiver is not credited.
C4_Witness ==
    \E i \in OkTransfers :
        /\ i = Len(transactions)
        /\ CommitHeight(i) = height + 1
        /\ Pending(i)
        /\ transactions[i].amount > 0
        /\ wallets[transactions[i].from].balance =
               INITIAL_BALANCE - transactions[i].amount
        /\ wallets[transactions[i].to].balance = INITIAL_BALANCE

\* C5: a step that executes an Accept successfully is the receiver's Accept
\* of a pending transfer; it increases the receiver's balance by the amount,
\* appends the Transfer event to the receiver's history (history_len + 1),
\* and removes the hash from the receiver's unaccepted set and from the
\* rollback bucket it was scheduled in.  An accepted transfer is in no
\* bucket and has no Rollback event.
C5_AcceptEffect ==
    /\ [](\A i \in OkTransfers :
             Accepts(i) # {} => Buckets(i) = {} /\ Refunds(i) = {})
    /\ [][Executed("Accept") =>
            LET a == transactions'[Len(transactions')]
                i == a.transfer_id
                t == transactions[i]
                k == t.to
            IN /\ i \in OkTransfers
               /\ a.receiver = k
               /\ i \in unaccepted_transfers[k]
               /\ i \notin unaccepted_transfers'[k]
               /\ wallets'[k].balance = wallets[k].balance + t.amount
               /\ wallets'[k].history_len = wallets[k].history_len + 1
               /\ history'[k] = Append(history[k], EventTransfer(i))
               /\ <<CommitHeight(i) + t.rollback_delay, i>> \in rollback_by_height
               /\ \A p \in rollback_by_height' : p[2] # i
          ]_vars

\* An accepted transfer whose time lock has expired since: the hook has
\* processed the bucket it had been scheduled in.
C5_Witness ==
    \E i \in OkTransfers :
        /\ Accepts(i) # {}
        /\ height > CommitHeight(i) + transactions[i].rollback_delay
        /\ transactions[i].amount > 0
        /\ wallets[transactions[i].to].balance =
               INITIAL_BALANCE + transactions[i].amount
        /\ wallets[transactions[i].from].balance =
               INITIAL_BALANCE - transactions[i].amount

\* C6: the commit of a block rolls back every transfer of the bucket of the
\* height reached before it, all of them still unaccepted: the sender's
\* history gains one Rollback event with the hash, the sender's balance grows
\* by the amounts of its transfers in the bucket (back to the initial balance
\* when the transfer and its rollback are all that happened to the sender),
\* the hash leaves the receiver's unaccepted set and the bucket is empty
\* afterwards.  A pending transfer sits in a bucket that is still to be
\* processed.
C6_AutomaticRollback ==
    /\ [](\A i \in OkTransfers :
             Pending(i) =>
                 \E h \in Buckets(i) : h >= height)
    /\ [][height' = height + 1 =>
            LET bucket == rollback_transfers(Fork, height)
            IN /\ \A i \in bucket :
                    LET t == transactions[i]
                    IN /\ i \in OkTransfers
                       /\ Pending(i)
                       /\ EventRollback(i) \notin SeqRange(history[t.from])
                       /\ Cardinality({p \in 1 .. Len(history'[t.from]) :
                              history'[t.from][p] = EventRollback(i)}) = 1
                       /\ wallets'[t.from].balance =
                              wallets[t.from].balance
                              + SumAmounts({j \in bucket :
                                               transactions[j].from = t.from})
                       /\ Tail(history'[t.from]) =
                              <<EventTransfer(i), EventRollback(i)>>
                              => wallets'[t.from].balance = INITIAL_BALANCE
                       /\ i \notin unaccepted_transfers'[t.to]
               /\ \A p \in rollback_by_height' : p[1] # height
          ]_vars

\* A transfer that nobody accepted has been rolled back by the hook and its
\* sender owns the initial balance again.
C6_Witness ==
    \E i \in OkTransfers :
        /\ Accepts(i) = {}
        /\ Refunds(i) # {}
        /\ ~Pending(i)
        /\ transactions[i].amount > 0
        /\ Buckets(i) = {}
        /\ wallets[transactions[i].from].balance = INITIAL_BALANCE

\* C7 as stated: once the block of height commit_height + rollback_delay is
\* committed, the transfer is no longer pending.
C7_Original ==
    \A i \in OkTransfers :
        height >= CommitHeight(i) + transactions[i].rollback_delay
            => ~Pending(i)

\* C7: once the block of height commit_height + rollback_delay + 1 is
\* committed, the transfer is no longer pending: it has been credited to the
\* receiver or refunded to the sender.
C7_Deadline ==
    \A i \in OkTransfers :
        height >= CommitHeight(i) + transactions[i].rollback_delay + 1
            => /\ ~Pending(i)
               /\ Credits(i) # {} \/ Refunds(i) # {}

\* The block of height commit_height + rollback_delay + 1 has just been
\* committed and its hook has refunded the transfer.
C7_Witness ==
    \E i \in OkTransfers :
        /\ height = CommitHeight(i) + transactions[i].rollback_delay + 1
        /\ BlockTxs = {}
        /\ Refunds(i) # {}
        /\ ~Pending(i)

\* C8: while the debugger listens, every rolled-back transfer has exactly
\* one RolledBack event and every other transfer has none; every event ever
\* sent carries a rolled-back transfer and the height commit height + delay
\* + 1 of the block whose hook rolled it back; the events are in the order
\* of these heights.
C8_DebugEvents ==
    /\ ~rx_dropped =>
          \A i \in Transfers :
              Cardinality({e \in 1 .. Len(debug_events) :
                              debug_events[e].transfer = i})
                  = IF Refunds(i) # {} THEN 1 ELSE 0
    /\ \A e \in 1 .. Len(debug_events) :
          LET i == debug_events[e].transfer
          IN /\ i \in OkTransfers
             /\ Refunds(i) # {}
             /\ Accepts(i) = {}
             /\ debug_events[e].height =
                    CommitHeight(i) + transactions[i].rollback_delay + 1
             /\ debug_events[e].height <= height
    /\ \A e1, e2 \in 1 .. Len(debug_events) :
          e1 < e2 => debug_events[e1].height <= debug_events[e2].height

\* Two transfers of different blocks have been rolled back and the debugger
\* has received their events, the earlier block's first.
C8_Witness ==
    /\ ~rx_dropped
    /\ Len(debug_events) = 2
    /\ debug_events[1].height < debug_events[2].height
    /\ Refunds(debug_events[1].transfer) # {}
    /\ Refunds(debug_events[2].transfer) # {}

\* C9: a pending transfer with delay d of the block of height H is in the
\* rollback bucket of height H + d and in no other bucket.
C9_RollbackBucket ==
    \A i \in OkTransfers :
        Pending(i) =>
            Buckets(i) = {CommitHeight(i) + transactions[i].rollback_delay}

\* The block of the transfer has just been committed: the bucket is the one
\* of the blockchain height plus the delay.
C9_Witness ==
    \E i \in OkTransfers :
        /\ Pending(i)
        /\ height = CommitHeight(i)
        /\ rollback_transfers(Fork, height + transactions[i].rollback_delay) = {i}
        /\ rollback_transfers(Fork, height + transactions[i].rollback_delay + 1) = {}

\* The state of scenario 1 after the block of the transfer: the only
\* transfer, of 333_333 tokens with delay 10 from a wallet that held the
\* initial balance, is committed and pending.
Scenario1(i) ==
    /\ OkTransfers = {i}
    /\ transactions[i].rollback_delay = 10
    /\ transactions[i].amount = 333333
    /\ height >= CommitHeight(i)
    /\ Pending(i)

\* C10 as stated: in scenario 1 the rollback bucket of height commit_height
\* + 11 is {h(T)}.
C10_Original ==
    \A i \in OkTransfers :
        Scenario1(i) => rollback_transfers(Fork, CommitHeight(i) + 11) = {i}

\* C10: in scenario 1 the rollback bucket of height commit_height + 10 is
\* {h(T)} and every other bucket is empty; the sender's balance is 666_667,
\* the receiver's 1_000_000, and the receiver's unaccepted set is {h(T)}.
C10_Scenario1 ==
    \A i \in OkTransfers :
        Scenario1(i) =>
            /\ rollback_transfers(Fork, CommitHeight(i) + 10) = {i}
            /\ rollback_by_height = {<<CommitHeight(i) + 10, i>>}
            /\ wallets[transactions[i].from].balance = 666667
            /\ wallets[transactions[i].to].balance = 1000000
            /\ unaccepted_transfers[transactions[i].to] = {i}

\* Scenario 1 right after the block of the transfer.
C10_Witness ==
    \E i \in OkTransfers :
        /\ Scenario1(i)
        /\ height = CommitHeight(i)
        /\ BlockTxs = {}

\* The step executes a transaction of the given kind, which fails with the
\* given error.
Rejected(kind, status) ==
    /\ Len(transactions') = Len(transactions) + 1
    /\ transactions'[Len(transactions')].kind = kind
    /\ transactions'[Len(transactions')].status = status

\* The step leaves every index of the schema as it was.
SchemaUnchanged ==
    UNCHANGED <<wallets, history, unaccepted_transfers, rollback_by_height,
                past_balances>>

C14_UnauthorizedAccept ==
    /\ [](\A i \in Transfers : \A k \in Keys \cup {NoKey} :
             k # transactions[i].to =>
                 AcceptExecute(Fork, transactions, AcceptTx(k, i), height)
                     = [status |-> "UnauthorizedAccept", s |-> Fork])
    /\ [][Rejected("Accept", "UnauthorizedAccept") =>
             LET a == transactions'[Len(transactions')]
             IN /\ transactions[a.transfer_id].to # a.receiver
                /\ SchemaUnchanged
                /\ Pending(a.transfer_id) =>
                      /\ a.transfer_id
                            \in unaccepted_transfers'[transactions[a.transfer_id].to]
                      /\ <<rollback_height(transactions, a.transfer_id),
                            a.transfer_id>> \in rollback_by_height'
          ]_vars

\* The sender tried to accept its own transfer, which is still pending and
\* still in its rollback bucket.
C14_Witness ==
    \E j \in 1 .. Len(transactions) :
        /\ transactions[j].kind = "Accept"
        /\ transactions[j].status = "UnauthorizedAccept"
        /\ LET i == transactions[j].transfer_id
           IN /\ transactions[j].receiver = transactions[i].from
              /\ transactions[i].status = "Ok"
              /\ Pending(i)
              /\ Buckets(i) = {rollback_height(transactions, i)}

\* C15: an Accept signed by the receiver of a stored transfer that is not in
\* unaccepted[receiver] (already accepted, rolled back, or never executed
\* successfully) fails with UnknownTransfer, and the step that executes it
\* leaves the ledger as it was: no event in the receiver's history,
\* history_len, history_hash and balance unchanged.
C15_UnknownTransfer ==
    /\ [](\A i \in Transfers :
             (transactions[i].to \in DOMAIN wallets /\ ~Pending(i)) =>
                 AcceptExecute(Fork, transactions,
                               AcceptTx(transactions[i].to, i), height).status
                     = "UnknownTransfer")
    /\ [][Rejected("Accept", "UnknownTransfer") =>
             LET a == transactions'[Len(transactions')]
             IN /\ SchemaUnchanged
                /\ IsCommittedTransfer(transactions, a.transfer_id) =>
                      /\ a.receiver = transactions[a.transfer_id].to
                      /\ ~Pending(a.transfer_id)
                      /\ history'[a.receiver] = history[a.receiver]
                      /\ wallets'[a.receiver] = wallets[a.receiver]
          ]_vars

\* The receiver tried to accept a transfer that had been rolled back; its
\* history holds no Transfer event of it.
C15_Witness ==
    \E j \in 1 .. Len(transactions) :
        /\ transactions[j].kind = "Accept"
        /\ transactions[j].status = "UnknownTransfer"
        /\ LET i == transactions[j].transfer_id
           IN /\ i \in OkTransfers
              /\ transactions[j].receiver = transactions[i].to
              /\ Refunds(i) # {}
              /\ transactions[j].block_height
                     > rollback_height(transactions, i)
              /\ Credits(i) = {}
              /\ wallets[transactions[i].to].history_len
                     = Len(history[transactions[i].to])

\* C16: CreateWallet for a key that has a wallet fails with WalletExists and
\* leaves the ledger untouched; for a new key it succeeds and creates the
\* wallet with balance INITIAL_BALANCE, the history [CreateWallet event],
\* history_len 1, last_send_index 0, an empty unaccepted set with the zero
\* hash, and past_balances[0] = balance as the only cached balance.
C16_CreateWallet ==
    /\ [](\A key \in Keys :
             CreateWalletExecute(Fork, CreateWalletTx(key), NextId).status
                 = IF key \in DOMAIN wallets THEN "WalletExists" ELSE "Ok")
    /\ [][/\ Rejected("CreateWallet", "WalletExists") =>
                /\ transactions'[Len(transactions')].key \in DOMAIN wallets
                /\ SchemaUnchanged
          /\ Executed("CreateWallet") =>
                LET id == Len(transactions')
                    key == transactions'[id].key
                IN /\ key \notin DOMAIN wallets
                   /\ DOMAIN wallets' = DOMAIN wallets \cup {key}
                   /\ \A k \in DOMAIN wallets : wallets'[k] = wallets[k]
                   /\ wallets'[key].public_key = key
                   /\ wallets'[key].balance = INITIAL_BALANCE
                   /\ wallets'[key].history_len = 1
                   /\ wallets'[key].last_send_index = 0
                   /\ history'[key] = <<EventCreateWallet(id)>>
                   /\ wallets'[key].history_hash = ListRoot(history'[key])
                   /\ unaccepted_transfers'[key] = {}
                   /\ wallets'[key].unaccepted_transfers_hash = ZeroHash
                   /\ past_balances'[key].items = (0 :> wallets'[key].balance)
          ]_vars

\* A wallet was created from the genesis state and a second CreateWallet for
\* its key was rejected; the wallet is as it was created.
C16_Witness ==
    \E j \in 1 .. Len(transactions), k \in 1 .. Len(transactions) :
        /\ j < k
        /\ transactions[j].kind = "CreateWallet"
        /\ transactions[j].status = "Ok"
        /\ transactions[k].kind = "CreateWallet"
        /\ transactions[k].status = "WalletExists"
        /\ transactions[k].key = transactions[j].key
        /\ wallets[transactions[j].key] =
               WalletInitialize(transactions[j].key,
                                ListRoot(<<EventCreateWallet(j)>>))
        /\ history[transactions[j].key] = <<EventCreateWallet(j)>>

\* C17: in every state of the ledger, the block boundaries included, each
\* wallet record agrees with the indices of its key: history_len is the
\* length of the history, history_hash its root, unaccepted_transfers_hash
\* the root of the unaccepted set (the zero hash when the set is empty, also
\* after every pending transfer has been rolled back), and
\* last_send_index < history_len.
C17_WalletConsistent ==
    \A k \in DOMAIN wallets :
        /\ wallets[k].public_key = k
        /\ wallets[k].history_len = Len(history[k])
        /\ wallets[k].history_hash = ListRoot(history[k])
        /\ wallets[k].unaccepted_transfers_hash = MapRoot(unaccepted_transfers[k])
        /\ unaccepted_transfers[k] = {} =>
               wallets[k].unaccepted_transfers_hash = ZeroHash
        /\ wallets[k].last_send_index < wallets[k].history_len

\* At a block boundary, the only transfer a wallet received has been rolled
\* back: the unaccepted set is empty again and its hash is the zero hash.
C17_Witness ==
    /\ BlockTxs = {}
    /\ \E i \in OkTransfers :
          /\ Refunds(i) # {}
          /\ height > rollback_height(transactions, i)
          /\ unaccepted_transfers[transactions[i].to] = {}
          /\ wallets[transactions[i].to].unaccepted_transfers_hash = ZeroHash
          /\ wallets[transactions[i].from].last_send_index >= 1
          /\ wallets[transactions[i].from].history_len
                 = Len(history[transactions[i].from])

\* C18: for every wallet, past_balances has an entry exactly at the indices
\* last_send_index <= i < history_len, and the entry at history_len - 1 is
\* the wallet's current balance.
C18_PastBalances ==
    \A k \in DOMAIN wallets :
        /\ DOMAIN past_balances[k].items =
               wallets[k].last_send_index .. wallets[k].history_len - 1
        /\ \A i \in 0 .. wallets[k].history_len + 1 :
               past_balance(Fork, k, i).some
                   <=> (wallets[k].last_send_index <= i /\ i < wallets[k].history_len)
        /\ past_balance(Fork, k, wallets[k].history_len - 1)
               = [some |-> TRUE, value |-> wallets[k].balance]

\* A wallet that has sent and has been refunded or credited since: the cache
\* starts at its last send, above index 0, and holds several balances.
C18_Witness ==
    \E k \in DOMAIN wallets :
        /\ wallets[k].last_send_index >= 1
        /\ wallets[k].history_len - wallets[k].last_send_index >= 2
        /\ ~past_balance(Fork, k, wallets[k].last_send_index - 1).some
        /\ past_balance(Fork, k, wallets[k].last_send_index).some
        /\ past_balance(Fork, k, wallets[k].last_send_index).value
               # wallets[k].balance

\* Successfully executed transfers the wallet has sent.
Sent(k) == {i \in OkTransfers : transactions[i].from = k}

\* The greatest element of a non-empty set of transaction ids.
Latest(ids) == CHOOSE i \in ids : \A j \in ids : j <= i

\* C19: last_send_index is the (0-based) index of the wallet's most recent
\* outgoing transfer: the event at that index is the Transfer event of the
\* latest transfer the wallet sent, and every later event is a Rollback or
\* the Transfer event of an incoming transfer; for a wallet that has never
\* sent it is 0, the index of the CreateWallet event.
C19_LastSendIndex ==
    \A k \in DOMAIN wallets :
        LET lsi == wallets[k].last_send_index
        IN /\ lsi + 1 \in 1 .. Len(history[k])
           /\ IF Sent(k) = {}
              THEN /\ lsi = 0
                   /\ history[k][1].tag = EventCreateWallet(0).tag
              ELSE history[k][lsi + 1] = EventTransfer(Latest(Sent(k)))
           /\ \A p \in lsi + 2 .. Len(history[k]) :
                 LET event == history[k][p]
                 IN \/ /\ event.tag = EventRollback(0).tag
                       /\ transactions[event.transaction_hash].from = k
                    \/ /\ event.tag = EventTransfer(0).tag
                       /\ transactions[event.transaction_hash].to = k

\* A wallet sent twice and then got one of its transfers rolled back:
\* last_send_index points at the second send, below the end of the history.
C19_Witness ==
    \E k \in DOMAIN wallets :
        /\ Cardinality(Sent(k)) >= 2
        /\ wallets[k].last_send_index + 1 < Len(history[k])
        /\ history[k][wallets[k].last_send_index + 1]
               = EventTransfer(Latest(Sent(k)))
        /\ \E i \in Sent(k) : history[k][Len(history[k])] = EventRollback(i)

\* ------------------------------------------------------------------ api
\* The consensus keys of the network's validators, in the order of their
\* ValidatorId; the test network has one validator.
Validators == <<"validator0">>

\* TrustAnchor::new(consensus_keys)
TrustAnchor == [validators |-> Validators]

\* Blockchain::service_table_unique_key(SERVICE_ID, 0)
ServiceTableKey == "private_currency.0"

None == [some |-> FALSE, value |-> 0]
Some(value) == [some |-> TRUE, value |-> value]

\* A Merkle proof is modelled by what its check restores from it: the root
\* hash of the index it was taken from and the requested entries.
\* ProofMapIndex::get_proof / get_multiproof
MapGetProof(root, map, keys) ==
    [root |-> root,
     entries |-> [k \in keys |-> IF k \in DOMAIN map THEN Some(map[k]) ELSE None]]

\* ProofListIndex::get_range_proof(from, to)
ListGetRangeProof(list, from, to) ==
    [root |-> ListRoot(list),
     len |-> Len(list),
     from |-> from,
     items |-> SubSeq(list, from + 1, to)]

\* ListProof::validate(root_hash, len): the (index, value) pairs proven.
ListProofValidate(proof, root_hash, len) ==
    IF proof.root = root_hash /\ proof.len = len
    THEN [status |-> "Ok",
          entries |-> [p \in 1 .. Len(proof.items) |->
                          <<proof.from + p - 1, proof.items[p]>>]]
    ELSE [status |-> "ListProof", entries |-> <<>>]

\* Schema::wallets().merkle_root()
WalletsRoot(s) == MapRoot({<<k, s.wallets[k]>> : k \in DOMAIN s.wallets})

\* The state hash of the block: the root of the table of service tables,
\* whose only entry is Schema::state_hash.
StateHash(s) == [kind |-> "state", content |-> {<<ServiceTableKey, WalletsRoot(s)>>}]

\* Block::hash()
BlockHash(block) == [kind |-> "block", content |-> block]

\* A Precommit message: the id of its author, the hash of the block it
\* endorses, and the key its signature verifies under.
Precommit(validator, block_hash, signed_by) ==
    [validator |-> validator, block_hash |-> block_hash, signed_by |-> signed_by]

\* CoreSchema::block_and_precommits(height) for a block the validators have
\* committed: every validator's Precommit for the block, signed with its
\* consensus key.
BlockProof(s, h) ==
    LET block == [height |-> h, state_hash |-> StateHash(s)]
    IN [block |-> block,
        precommits |-> [i \in 1 .. Len(Validators) |->
                           Precommit(i - 1, BlockHash(block), Validators[i])]]

\* verify_block_proof that counts the quorum before it looks for duplicates.
verify_block_proof_quorum_first(trust_anchor, block_proof) ==
    LET precommits == block_proof.precommits
        ids == {precommits[i].validator : i \in 1 .. Len(precommits)}
    IN IF \E id \in ids : id >= Len(trust_anchor.validators)
       THEN "InvalidValidatorId"
       ELSE IF Len(precommits) < (2 * Len(trust_anchor.validators)) \div 3 + 1
       THEN "NoQuorum"
       ELSE IF Cardinality(ids) # Len(precommits)
       THEN "DuplicateValidators"
       ELSE IF \E i \in 1 .. Len(precommits) :
                  precommits[i].signed_by
                      # trust_anchor.validators[precommits[i].validator + 1]
       THEN "InvalidSignature"
       ELSE "Ok"

\* TrustAnchor::verify_block_proof
verify_block_proof(trust_anchor, block_proof) ==
    LET precommits == block_proof.precommits
        ids == {precommits[i].validator : i \in 1 .. Len(precommits)}
    IN IF \E id \in ids : id >= Len(trust_anchor.validators)
       THEN "InvalidValidatorId"
       ELSE IF Cardinality(ids) # Len(precommits)
       THEN "DuplicateValidators"
       ELSE IF Len(precommits) < (2 * Len(trust_anchor.validators)) \div 3 + 1
       THEN "NoQuorum"
       ELSE IF \E i \in 1 .. Len(precommits) :
                  precommits[i].signed_by
                      # trust_anchor.validators[precommits[i].validator + 1]
       THEN "InvalidSignature"
       ELSE "Ok"

WalletQuery(key, start_history_at) ==
    [key |-> key, start_history_at |-> start_history_at]

\* maybe_transfer / maybe_create_wallet: the transaction with the hash, if
\* it is committed and of the expected kind.
maybe_transaction(txs, id, kind) ==
    IF id \in 1 .. Len(txs) /\ txs[id].kind = kind
    THEN Some([hash |-> id, message |-> txs[id]])
    ELSE None

\* FullEvent::from; `loaded` is FALSE where the `expect` panics.
FullEventFrom(event, txs) ==
    LET kind == IF event.tag = EventCreateWallet(0).tag
                THEN "CreateWallet" ELSE "Transfer"
        tx == maybe_transaction(txs, event.transaction_hash, kind)
    IN [tag |-> event.tag, loaded |-> tx.some, tx |-> tx.value]

\* FullEvent::corresponds_to
corresponds_to(full_event, event) ==
    /\ full_event.tag = event.tag
    /\ full_event.loaded
    /\ full_event.tx.hash = event.transaction_hash

\* Events of the list from index start_history_at (0-based) to the end.
IterFrom(list, start_history_at) ==
    SubSeq(list, start_history_at + 1, Len(list))

\* WalletContentsProof::new that proves the whole history, whatever the
\* index the query starts at.
WalletContentsProofNew_whole_history(s, txs, query) ==
    LET history_index == s.history[query.key]
        events == IterFrom(history_index, query.start_history_at)
        unaccepted == s.unaccepted[query.key]
    IN [history |-> [p \in 1 .. Len(events) |-> FullEventFrom(events[p], txs)],
        history_proof |->
            IF events = <<>>
            THEN None
            ELSE Some(ListGetRangeProof(history_index, 0, Len(history_index))),
        unaccepted_transfers |->
            {maybe_transaction(txs, hash, "Transfer") : hash \in unaccepted},
        unaccepted_transfers_proof |->
            MapGetProof(MapRoot(unaccepted), [hash \in unaccepted |-> "unit"],
                        unaccepted)]

\* WalletContentsProof::new
WalletContentsProofNew(s, txs, query) ==
    LET history_index == s.history[query.key]
        events == IterFrom(history_index, query.start_history_at)
        unaccepted == s.unaccepted[query.key]
    IN [history |-> [p \in 1 .. Len(events) |-> FullEventFrom(events[p], txs)],
        history_proof |->
            IF events = <<>>
            THEN None
            ELSE Some(ListGetRangeProof(history_index, query.start_history_at,
                                        Len(history_index))),
        unaccepted_transfers |->
            {maybe_transaction(txs, hash, "Transfer") : hash \in unaccepted},
        unaccepted_transfers_proof |->
            MapGetProof(MapRoot(unaccepted), [hash \in unaccepted |-> "unit"],
                        unaccepted)]

\* WalletContentsProof::check
WalletContentsProofCheck(contents, wallet, query) ==
    LET validated ==
            IF contents.history_proof.some
            THEN ListProofValidate(contents.history_proof.value,
                                   wallet.history_hash, wallet.history_len)
            ELSE [status |-> "Ok", entries |-> <<>>]
        tx_hashes == validated.entries
        transfer_hashes ==
            {tx.value.hash : tx \in {u \in contents.unaccepted_transfers : u.some}}
        checked == contents.unaccepted_transfers_proof
        hashes_in_proof == {k \in DOMAIN checked.entries : checked.entries[k].some}
    IN IF validated.status # "Ok"
       THEN "ListProof"
       ELSE IF Len(tx_hashes) # Len(contents.history)
       THEN "KeyMismatch"
       ELSE IF tx_hashes # <<>> /\ tx_hashes[1][1] # query.start_history_at
       THEN "KeyMismatch"
       ELSE IF \E p \in 1 .. Len(tx_hashes) :
                  ~corresponds_to(contents.history[p], tx_hashes[p][2])
       THEN "KeyMismatch"
       ELSE IF checked.root # wallet.unaccepted_transfers_hash
       THEN "ProofDisconnect"
       ELSE IF transfer_hashes # hashes_in_proof
       THEN "KeyMismatch"
       ELSE "Ok"

\* WalletProof::new on the snapshot of the block at height h.
WalletProofNew(s, txs, h, query) ==
    [block_proof |-> BlockProof(s, h),
     wallet_table_proof |->
         MapGetProof(StateHash(s), (ServiceTableKey :> WalletsRoot(s)),
                     {ServiceTableKey}),
     wallet_proof |-> MapGetProof(WalletsRoot(s), s.wallets, {query.key}),
     wallet_contents |->
         IF query.key \in DOMAIN s.wallets
         THEN Some(WalletContentsProofNew(s, txs, query))
         ELSE None]

\* WalletProof::check_map_proof_with_single_key
check_map_proof_with_single_key(proof, expected_hash, key) ==
    IF proof.root # expected_hash
    THEN [status |-> "ProofDisconnect", value |-> None]
    ELSE IF key \notin DOMAIN proof.entries
    THEN [status |-> "MissingKey", value |-> None]
    ELSE [status |-> "Ok", value |-> proof.entries[key]]

CheckedWalletProof(status, block, wallet, events, transfers) ==
    [status |-> status, block |-> block, wallet |-> wallet,
     history |-> events, unaccepted_transfers |-> transfers]

\* WalletProof::check
WalletProofCheck(proof, trust_anchor, query) ==
    LET block == proof.block_proof.block
        failed(status) == CheckedWalletProof(status, block, None, <<>>, {})
        verified == verify_block_proof(trust_anchor, proof.block_proof)
        wallets_hash ==
            check_map_proof_with_single_key(proof.wallet_table_proof,
                                            block.state_hash, ServiceTableKey)
    IN IF verified # "Ok" THEN failed(verified)
       ELSE IF wallets_hash.status # "Ok" THEN failed(wallets_hash.status)
       ELSE IF ~wallets_hash.value.some THEN failed("MissingKey")
       ELSE LET wallet ==
                    check_map_proof_with_single_key(
                        proof.wallet_proof, wallets_hash.value.value, query.key)
            IN IF wallet.status # "Ok" THEN failed(wallet.status)
               ELSE IF ~wallet.value.some
               THEN CheckedWalletProof("Ok", block, None, <<>>, {})
               ELSE IF ~proof.wallet_contents.some THEN failed("NoContents")
               ELSE LET contents == proof.wallet_contents.value
                        status == WalletContentsProofCheck(
                                      contents, wallet.value.value, query)
                    IN IF status # "Ok" THEN failed(status)
                       ELSE CheckedWalletProof("Ok", block, wallet.value,
                                               contents.history,
                                               contents.unaccepted_transfers)

\* The answer of the wallet endpoint to the query, checked by the client.
CheckedWallet(key, start_history_at) ==
    LET query == WalletQuery(key, start_history_at)
    IN WalletProofCheck(WalletProofNew(Fork, transactions, height, query),
                        TrustAnchor, query)

\* C20: at every block boundary and for every query - a registered key, an
\* unregistered key, start_history_at below, at and beyond history_len - the
\* proof the node builds passes the check under the validators' trust
\* anchor; for a registered key the check yields the wallet record, the
\* events of history[key] from start_history_at to the end with their
\* transactions, and the transfers of unaccepted[key]; for an unregistered
\* key it yields no wallet, no event and no transfer.
C20_WalletProofRoundTrip ==
    BlockTxs = {} =>
        \A key \in Keys \cup {NoKey} :
            IF key \in DOMAIN wallets
            THEN \A start_history_at \in 0 .. Len(history[key]) + 1 :
                    LET checked == CheckedWallet(key, start_history_at)
                        events == IterFrom(history[key], start_history_at)
                    IN /\ checked.status = "Ok"
                       /\ checked.block.height = height
                       /\ checked.wallet = Some(wallets[key])
                       /\ Len(checked.history) = Len(events)
                       /\ \A p \in 1 .. Len(events) :
                             /\ checked.history[p].loaded
                             /\ checked.history[p].tag = events[p].tag
                             /\ checked.history[p].tx.hash
                                    = events[p].transaction_hash
                             /\ checked.history[p].tx.message
                                    = transactions[events[p].transaction_hash]
                       /\ checked.unaccepted_transfers =
                              {Some([hash |-> i, message |-> transactions[i]]) :
                                  i \in unaccepted_transfers[key]}
            ELSE \A start_history_at \in 0 .. 1 :
                    CheckedWallet(key, start_history_at)
                        = CheckedWalletProof("Ok", BlockProof(Fork, height).block,
                                             None, <<>>, {})

\* At a block boundary a wallet has a pending incoming transfer and events
\* after index 1: the checked answer to a query from index 1 holds these
\* events and the transfer, the answer to a query from history_len holds no
\* event, and the answer for the unregistered key holds no wallet.
C20_Witness ==
    /\ BlockTxs = {}
    /\ \E key \in DOMAIN wallets :
          /\ Len(history[key]) >= 3
          /\ unaccepted_transfers[key] # {}
          /\ CheckedWallet(key, 1).status = "Ok"
          /\ Len(CheckedWallet(key, 1).history) = Len(history[key]) - 1
          /\ CheckedWallet(key, 1).unaccepted_transfers # {}
          /\ CheckedWallet(key, Len(history[key])).status = "Ok"
          /\ CheckedWallet(key, Len(history[key])).history = <<>>
    /\ ~CheckedWallet(NoKey, 0).wallet.some

\* ---------------------------------------------------------- light client
\* Consensus keys of the validators a network may have, by ValidatorId.
ConsensusKeys ==
    <<"validator0", "validator1", "validator2", "validator3", "validator4">>

\* The key of the server that answers the client; it is no validator's key.
ServerKey == "server"

\* The header of the block the validators have committed, and a header the
\* server makes up to show alice a balance of zero.
CommittedBlock == BlockProof(Registered, 1).block
FabricatedBlock ==
    [height |-> 1,
     state_hash |-> StateHash([Registered EXCEPT !.wallets["alice"].balance = 0])]

\* The Precommits the server can attach to the header it answers with: the
\* ones the validators have signed, all for the committed block, and ones it
\* signs itself, with any author (one id beyond every anchor) and block.
ServerPrecommits(anchor) ==
    {Precommit(id - 1, BlockHash(CommittedBlock), anchor.validators[id]) :
        id \in 1 .. Len(anchor.validators)}
    \cup {Precommit(id, BlockHash(block), ServerKey) :
             id \in 0 .. MaxValidators, block \in {CommittedBlock, FabricatedBlock}}

\* The client knows the validators; the server picks the header to answer
\* with.
InitLightClient ==
    /\ Registration
    /\ debugger_probe = FALSE
    /\ \E n \in 1 .. MaxValidators :
          client_anchor = [validators |-> SubSeq(ConsensusKeys, 1, n)]
    /\ \E block \in {CommittedBlock, FabricatedBlock} :
          served_block_proof = [block |-> block, precommits |-> <<>>]
    /\ verdict = "Unverified"
    /\ NoSecrets

LedgerUnchanged ==
    UNCHANGED <<height, transactions, wallets, history, unaccepted_transfers,
                rollback_by_height, past_balances, rolled_back_transfers,
                debugger_probe, shutdown, rx_dropped, debug_events>>

\* The server attaches one more Precommit to its answer.
AttachPrecommit ==
    /\ verdict = "Unverified"
    /\ Len(served_block_proof.precommits) < MaxPrecommits
    /\ \E precommit \in ServerPrecommits(client_anchor) :
          served_block_proof' =
              [served_block_proof EXCEPT !.precommits = Append(@, precommit)]
    /\ UNCHANGED <<client_anchor, verdict>>
    /\ UNCHANGED secret_vars
    /\ LedgerUnchanged

\* WalletProof::check, first step: trust_anchor.verify_block_proof.
VerifyBlockProof ==
    /\ verdict = "Unverified"
    /\ verdict' = verify_block_proof(client_anchor, served_block_proof)
    /\ UNCHANGED <<client_anchor, served_block_proof>>
    /\ UNCHANGED secret_vars
    /\ LedgerUnchanged

NextLightClient ==
    \/ AttachPrecommit
    \/ VerifyBlockProof

SpecLightClient == InitLightClient /\ [][NextLightClient]_vars

\* floor(2n/3) + 1 for the n validators of the client's anchor.
Quorum == (2 * Len(client_anchor.validators)) \div 3 + 1

\* Validators of the anchor with a validly signed Precommit in the answer
\* that endorses the block header of the answer.
Endorsers ==
    {id \in 1 .. Len(client_anchor.validators) :
        \E i \in 1 .. Len(served_block_proof.precommits) :
            LET precommit == served_block_proof.precommits[i]
            IN /\ precommit.validator = id - 1
               /\ precommit.signed_by = client_anchor.validators[id]
               /\ precommit.block_hash = BlockHash(served_block_proof.block)}

\* C21: if verify_block_proof accepts the answer, at least floor(2n/3) + 1
\* distinct validators of the anchor have validly signed Precommits that
\* endorse the block header of the answer; in particular no header the
\* validators never committed is accepted.
C21_BlockProofSound ==
    verdict = "Ok" =>
        /\ Cardinality(Endorsers) >= Quorum
        /\ served_block_proof.block = CommittedBlock

\* Positions of the Precommits of the answer.
Attached == 1 .. Len(served_block_proof.precommits)

\* Some Precommit names a validator id the anchor does not have.
IdOutOfRange ==
    \E i \in Attached :
        served_block_proof.precommits[i].validator >= Len(client_anchor.validators)

\* Two Precommits have the same author.
SameAuthor ==
    \E i \in Attached, j \in Attached :
        /\ i # j
        /\ served_block_proof.precommits[i].validator
               = served_block_proof.precommits[j].validator

\* Some Precommit is not signed with the key of the validator it names.
BadSignature ==
    \E i \in Attached :
        LET precommit == served_block_proof.precommits[i]
        IN /\ precommit.validator < Len(client_anchor.validators)
           /\ precommit.signed_by
                  # client_anchor.validators[precommit.validator + 1]

\* C23: verify_block_proof over the n validators of the anchor returns
\* InvalidValidatorId if a Precommit's validator id is >= n, else
\* DuplicateValidators if two Precommits have the same validator, else
\* NoQuorum if there are fewer than floor(2n/3) + 1 Precommits, else
\* InvalidSignature if a signature does not verify under the key of its
\* validator, and Ok exactly when none of these applies.
C23_VerifyOrder ==
    verdict # "Unverified" =>
        /\ verdict = "InvalidValidatorId" <=> IdOutOfRange
        /\ verdict = "DuplicateValidators" <=> (~IdOutOfRange /\ SameAuthor)
        /\ verdict = "NoQuorum" <=>
               (~IdOutOfRange /\ ~SameAuthor /\ Len(served_block_proof.precommits) < Quorum)
        /\ verdict = "InvalidSignature" <=>
               (/\ ~IdOutOfRange /\ ~SameAuthor
                /\ Len(served_block_proof.precommits) >= Quorum
                /\ BadSignature)
        /\ verdict = "Ok" <=>
               (/\ ~IdOutOfRange /\ ~SameAuthor
                /\ Len(served_block_proof.precommits) >= Quorum
                /\ ~BadSignature)

\* Two Precommits of one validator, signed by the server, were shown to a
\* client that knows three validators: the duplicate is reported, although
\* the quorum is missed and the signatures are bad as well.
C23_Witness ==
    /\ verdict = "DuplicateValidators"
    /\ Len(client_anchor.validators) = 3
    /\ Len(served_block_proof.precommits) < Quorum
    /\ BadSignature

\* An answer a dishonest server can give to the query in place of
\* WalletProof::new: every part is as the node builds it, except that the
\* events are the run [first, last) of the wallet's history, and the history
\* proof is absent or the range proof of [from, to).
ServedWalletProof(s, txs, h, query, first, last, proven, from, to) ==
    LET honest == WalletProofNew(s, txs, h, query)
        history_index == s.history[query.key]
        events == SubSeq(history_index, first + 1, last)
    IN [honest EXCEPT
           !.wallet_contents.value.history =
               [p \in 1 .. Len(events) |-> FullEventFrom(events[p], txs)],
           !.wallet_contents.value.history_proof =
               IF proven
               THEN Some(ListGetRangeProof(history_index, from, to))
               ELSE None]

\* C22: at a block boundary, whenever the check of an answer succeeds for a
\* registered wallet, the history it returns is exactly the events of the
\* wallet at the indices start_history_at .. history_len - 1, whatever run
\* of events and whatever history proof the server put into the answer.
C22_HistoryComplete ==
    BlockTxs = {} =>
        \A key \in DOMAIN wallets :
            LET len == Len(history[key])
            IN \A start_history_at \in 0 .. len, first \in 0 .. len, last \in 0 .. len,
                  proven \in BOOLEAN, from \in 0 .. len - 1, to \in 1 .. len :
                   LET query == WalletQuery(key, start_history_at)
                       events == IterFrom(history[key], start_history_at)
                       proof == ServedWalletProof(Fork, transactions, height, query,
                                                  first, last, proven, from, to)
                       checked == WalletProofCheck(proof, TrustAnchor, query)
                   IN (from < to /\ checked.status = "Ok") =>
                          checked.history =
                              [p \in 1 .. Len(events) |->
                                  FullEventFrom(events[p], transactions)]

\* Client::poll_history, the body of its loop: one event applied.
ApplyEvent(state, event) ==
    IF state.panicked \/ ~event.loaded THEN [state EXCEPT !.panicked = TRUE]
    ELSE IF event.tag = EventCreateWallet(0).tag
    THEN SecretStateInitialize(state)
    ELSE IF event.tag = EventTransfer(0).tag
    THEN SecretStateTransfer(state, event.tx.message)
    ELSE SecretStateRollback(state, event.tx.message)

\* Client::poll_history, its loop over the events of the checked answer.
RECURSIVE ApplyEvents(_, _)
ApplyEvents(state, events) ==
    IF events = <<>>
    THEN state
    ELSE ApplyEvents(ApplyEvent(state, Head(events)), Tail(events))

\* The secret state of the owner of the key who has polled its whole
\* history, from index 0 on.
Replayed(key) ==
    ApplyEvents(SecretStateNew(key), CheckedWallet(key, 0).history)

\* C24: for every wallet of the ledger, a SecretState that applies the
\* events of the wallet's history in order, each once, does not panic and
\* ends with a balance opening that opens the wallet's balance commitment
\* (corresponds_to holds) and with the wallet's history_len.
C24_ClientReplay ==
    \A key \in DOMAIN wallets :
        /\ ~Replayed(key).panicked
        /\ SecretStateCorrespondsTo(Replayed(key), wallets[key])
        /\ Replayed(key).history_len = wallets[key].history_len

\* A sender replayed its creation, a transfer of a positive amount it sent
\* and the rollback of that transfer, and is back at the initial balance.
C24_Witness ==
    \E i \in OkTransfers :
        LET from == transactions[i].from
            to == transactions[i].to
        IN /\ transactions[i].amount > 0
           /\ Len(history[from]) = 3
           /\ history[from][2] = EventTransfer(i)
           /\ history[from][3] = EventRollback(i)
           /\ Replayed(from).history_len = 3
           /\ Replayed(from).balance_opening = OpeningOf(U64(INITIAL_BALANCE))
           /\ Replayed(to).history_len = Len(history[to])

\* ------------------------------------------------- accepting in any order
\* The fixture of accept_several_transfers: transfers are committed first,
\* then the receivers accept them, in any order and in any blocks.
MaxAccepts == 2

AcceptTxs == {i \in 1 .. Len(transactions) : transactions[i].kind = "Accept"}

\* A transfer of the fixture: the transfers are addressed to one receiver,
\* are in the block that follows the registration, and each of them
\* executes successfully.
PendingTransfer ==
    /\ height = 1
    /\ AcceptTxs = {}
    /\ \E from \in Keys, hlen \in HistoryLens, amount \in {1, 600000} :
          LET t == TransferTx(from, "bob", ROLLBACK_DELAY_START, hlen, amount)
              r == TransferExecute(Fork, t, NextId, height)
          IN TransferVerify(t) /\ Admit(r, 0) /\ Commit(t, r)

\* An Accept of a committed transfer, signed by either key; at most
\* MaxFailed of them fail.
AcceptPending ==
    /\ Cardinality(AcceptTxs) < MaxAccepts
    /\ \E receiver \in Keys, transfer_id \in OkTransfers :
          LET t == AcceptTx(receiver, transfer_id)
              r == AcceptExecute(Fork, transactions, t, height)
          IN /\ r.status # "Ok" => Cardinality(Failed) < MaxFailed
             /\ Commit(t, r)

NextAccepts ==
    \/ PendingTransfer
    \/ AcceptPending
    \/ CommitBlock

SpecAccepts == Init /\ [][NextAccepts]_vars

\* Successfully executed transfers addressed to the key.
TransfersTo(key) == {i \in OkTransfers : transactions[i].to = key}

\* Successfully executed transfers of the key that were not refunded.
Debits(key) ==
    {i \in OkTransfers : transactions[i].from = key /\ Refunds(i) = {}}

\* The transfer was neither accepted nor rolled back.
Unresolved(i) == Accepts(i) = {} /\ Refunds(i) = {}

\* C25: an Accept of a committed transfer that was neither accepted nor
\* rolled back, signed by its receiver, succeeds whatever other transfers
\* to the same receiver were accepted before it, in the same block or in
\* earlier ones; and once two distinct transfers to one receiver are
\* accepted, in either order, the receiver's balance is the initial balance
\* plus the accepted amounts (minus what the receiver itself has sent),
\* neither transfer is left in the unaccepted set, which is empty if no
\* other transfer to the receiver is unresolved, and the receiver's history
\* holds exactly one Transfer event for each.
C25_AcceptsCommute ==
    /\ [](\A i \in OkTransfers : \A j \in OkTransfers \ {i} :
            LET receiver == transactions[i].to
            IN (/\ transactions[j].to = receiver
                /\ Accepts(i) # {}
                /\ Accepts(j) # {})
               => /\ wallets[receiver].balance
                       = INITIAL_BALANCE
                         + SumAmounts({c \in TransfersTo(receiver) : Accepts(c) # {}})
                         - SumAmounts(Debits(receiver))
                  /\ unaccepted_transfers[receiver]
                       = {c \in TransfersTo(receiver) : Unresolved(c)}
                  /\ Cardinality(Credits(i)) = 1
                  /\ Cardinality(Credits(j)) = 1)
    /\ [][\A id \in OkTransfers :
             (/\ Unresolved(id)
              /\ Len(transactions') = Len(transactions) + 1
              /\ transactions'[Len(transactions')].kind = "Accept"
              /\ transactions'[Len(transactions')].transfer_id = id
              /\ transactions'[Len(transactions')].receiver = transactions[id].to)
             => transactions'[Len(transactions')].status = "Ok"]_vars

\* Two transfers to one receiver were accepted in different blocks, the
\* later transfer first; the receiver holds both amounts and nothing is left
\* to accept.
C25_Witness ==
    \E i \in OkTransfers : \E j \in OkTransfers :
        /\ i < j
        /\ transactions[i].to = transactions[j].to
        /\ transactions[i].amount # transactions[j].amount
        /\ \E a \in Accepts(i) : \E b \in Accepts(j) :
              /\ b < a
              /\ CommitHeight(b) < CommitHeight(a)
        /\ wallets[transactions[i].to].balance
              = INITIAL_BALANCE + transactions[i].amount + transactions[j].amount
        /\ unaccepted_transfers[transactions[i].to] = {}

\* ------------------------------------------------ stateless verification
\* Transfers at and around every limit of the stateless verification.
BoundaryTransfers ==
    {TransferTx(from, to, delay, hlen, amount) :
        from \in Keys, to \in Keys,
        delay \in {0, ROLLBACK_DELAY_START - 1, ROLLBACK_DELAY_START,
                   ROLLBACK_DELAY_END - 1, ROLLBACK_DELAY_END,
                   ROLLBACK_DELAY_END + 1},
        hlen \in HistoryLens,
        amount \in {MIN_TRANSFER_AMOUNT - 1, MIN_TRANSFER_AMOUNT, INITIAL_BALANCE}}

MaxOwnerHistory == 3

InitOwner ==
    /\ Registration
    /\ debugger_probe = FALSE
    /\ client_anchor = [validators |-> <<>>]
    /\ served_block_proof = [block |-> [height |-> 0, state_hash |-> ZeroHash],
                             precommits |-> <<>>]
    /\ verdict = "Unverified"
    /\ \E key \in Keys : secret_state = SecretStateNew(key)
    /\ created = NotCreated
    /\ owner_opening = OpeningOf(U64(0))
    /\ operation = [op |-> "none", rhs |-> OpeningOf(U64(0)), index |-> 0]

\* SecretState::initialize
OwnerInitialize ==
    /\ secret_state.history_len = 0
    /\ secret_state' = SecretStateInitialize(secret_state)
    /\ created' = NotCreated
    /\ UNCHANGED <<owner_opening, operation>>
    /\ NoLedgerStep

\* SecretState::create_transfer, which takes the state by shared reference.
OwnerCreateTransfer ==
    /\ \E amount \in {0, 1, 600000, INITIAL_BALANCE, INITIAL_BALANCE + 1},
          receiver \in Keys,
          delay \in {ROLLBACK_DELAY_START - 1, ROLLBACK_DELAY_START,
                     ROLLBACK_DELAY_END - 1, ROLLBACK_DELAY_END} :
          created' = TransferCreate(secret_state, Request(amount, receiver, delay))
    /\ UNCHANGED <<secret_state, owner_opening, operation>>
    /\ NoLedgerStep

\* SecretState::transfer with the transfer the owner created.
OwnerTransfer ==
    /\ created.status = "Ok"
    /\ secret_state.history_len < MaxOwnerHistory
    /\ secret_state' = SecretStateTransfer(secret_state, created.transfer)
    /\ created' = NotCreated
    /\ UNCHANGED <<owner_opening, operation>>
    /\ NoLedgerStep

NextOwner ==
    \/ OwnerInitialize
    \/ OwnerCreateTransfer
    \/ OwnerTransfer

SpecOwner == InitOwner /\ [][NextOwner]_vars

\* The balance the owner knows, as a number (it stays below 2^31 here).
KnownBalance == secret_state.balance_opening.value[1]
                    + Limb * secret_state.balance_opening.value[2]

\* C27: create_transfer panics, returning no transaction, exactly when the
\* amount is below min_transfer_amount, the receiver is the sender, the
\* delay is outside [5, 1000) or the amount exceeds the balance the state
\* knows; otherwise it returns a Transfer from the owner to the receiver
\* with the requested delay and amount and the state's current history_len;
\* in either case the secret state is as it was.
C27_CreateTransfer ==
    /\ [](created.status # "None" =>
            LET request == created.request
                refused ==
                    \/ request.amount < MIN_TRANSFER_AMOUNT
                    \/ request.receiver = secret_state.verifying_key
                    \/ request.rollback_delay < 5
                    \/ request.rollback_delay >= 1000
                    \/ request.amount > KnownBalance
            IN /\ created.status = "Panic" <=> refused
               /\ created.status = "Ok" <=> ~refused
               /\ created.status = "Ok" =>
                     /\ created.transfer.kind = "Transfer"
                     /\ created.transfer.from = secret_state.verifying_key
                     /\ created.transfer.to = request.receiver
                     /\ created.transfer.rollback_delay = request.rollback_delay
                     /\ created.transfer.amount = request.amount
                     /\ created.transfer.history_len = secret_state.history_len)
    /\ [][created'.status # "None" => secret_state' = secret_state]_vars

\* The owner, two events into its history and 600000 tokens poorer, got a
\* transfer of one token, while a request for 600000 tokens now panics.
C27_Witness ==
    /\ secret_state.history_len = 2
    /\ KnownBalance = INITIAL_BALANCE - 600000
    /\ created.status = "Ok"
    /\ created.transfer.history_len = 2
    /\ created.request.amount = 1
    /\ TransferCreate(secret_state,
                      Request(600000, created.request.receiver,
                              created.request.rollback_delay)).status = "Panic"

\* --------------------------------------------------- Opening arithmetic
\* The owner adds Openings to and subtracts them from an Opening, as
\* SecretState does with its balance.
MaxOperations == 2

\* Values at the ends of the u64 range and at the limits of its limbs.
U64Samples ==
    {U64(0), U64(1), U64(Limb - 1), U64(Limb),
     <<Limb - 1, Limb - 1, 0, 0>>, <<0, 0, 0, Limb \div 2>>,
     <<Limb - 2, Limb - 1, Limb - 1, Limb - 1>>, U64_MAX}

InitOpenings ==
    /\ Registration
    /\ debugger_probe = FALSE
    /\ client_anchor = [validators |-> <<>>]
    /\ served_block_proof = [block |-> [height |-> 0, state_hash |-> ZeroHash],
                             precommits |-> <<>>]
    /\ verdict = "Unverified"
    /\ secret_state = SecretStateNew(NoKey)
    /\ created = NotCreated
    /\ \E value \in U64Samples : owner_opening = OpeningOf(value)
    /\ operation = [op |-> "none", rhs |-> OpeningOf(U64(0)), index |-> 0]

\* One more operation on the Opening; a panic ends the computation.
Operate(op, rhs, result) ==
    /\ ~owner_opening.panicked
    /\ operation.index < MaxOperations
    /\ owner_opening' = result
    /\ operation' = [op |-> op, rhs |-> rhs, index |-> operation.index + 1]
    /\ UNCHANGED <<secret_state, created>>
    /\ NoLedgerStep

\* opening += rhs
OpeningAddAssign ==
    \E value \in U64Samples :
        Operate("add", OpeningOf(value),
                OpeningAdd(owner_opening, OpeningOf(value)))

\* opening -= rhs
OpeningSubAssign ==
    \E value \in U64Samples :
        Operate("sub", OpeningOf(value),
                OpeningSub(owner_opening, OpeningOf(value)))

NextOpenings ==
    \/ OpeningAddAssign
    \/ OpeningSubAssign

SpecOpenings == InitOpenings /\ [][NextOpenings]_vars

\* Bit k (0 is the least significant) of the number the limbs stand for.
Bit(x, k) == (x[k \div 16 + 1] \div 2 ^ (k % 16)) % 2

\* The carry into bit k of the binary addition of a and b.
RECURSIVE CarryInto(_, _, _)
CarryInto(a, b, k) ==
    IF k = 0 THEN 0
    ELSE (Bit(a, k - 1) + Bit(b, k - 1) + CarryInto(a, b, k - 1)) \div 2

\* a + b = c as natural numbers below 2^64.
IsSum(a, b, c) ==
    /\ CarryInto(a, b, 64) = 0
    /\ \A k \in 0 .. 63 :
          Bit(c, k) = (Bit(a, k) + Bit(b, k) + CarryInto(a, b, k)) % 2

\* a < b as natural numbers.
IsLess(a, b) ==
    \E k \in 0 .. 63 :
        /\ Bit(a, k) < Bit(b, k)
        /\ \A j \in k + 1 .. 63 : Bit(a, j) = Bit(b, j)

\* C28: adding an Opening to an Opening panics exactly when the sum of the
\* values is 2^64 or more and otherwise yields the exact sum; subtracting
\* panics exactly when the subtrahend is the larger value and otherwise
\* yields the exact difference; a result is never a wrapped value.
C28_OpeningArithmetic ==
    [][operation'.index = operation.index + 1 =>
         LET a == owner_opening.value
             b == operation'.rhs.value
             result == owner_opening'
         IN /\ operation'.op = "add" =>
                  /\ result.panicked <=> CarryInto(a, b, 64) = 1
                  /\ ~result.panicked => IsSum(a, b, result.value)
            /\ operation'.op = "sub" =>
                  /\ result.panicked <=> IsLess(a, b)
                  /\ ~result.panicked => IsSum(result.value, b, a)
            /\ \A i \in 1 .. 4 : result.value[i] \in 0 .. Limb - 1]_vars

\* 1 was added to an Opening of 2^64 - 1, reached by adding 1 to 2^64 - 2:
\* the second addition panicked.
C28_Witness ==
    /\ operation.index = 2
    /\ operation.op = "add"
    /\ operation.rhs = OpeningOf(U64(1))
    /\ owner_opening.panicked
    /\ owner_opening.value = U64(0)

\* ------------------------------------------------------ the debugger tap
\* A service with or without a debugger probe.
InitProbe ==
    /\ Registration
    /\ NoClient
    /\ debugger_probe \in BOOLEAN

SpecProbe == InitProbe /\ [][NextDebugger]_vars

\* The step commits a block.
BlockCommitted == height' = height + 1

\* C29: whether the service has no probe, a probe with its debugger
\* attached, a probe whose debugger was dropped or a probe that is shut
\* down, every block commit rolls back exactly the transfers of the bucket
\* of its height and leaves the wallets, histories, unaccepted sets,
\* rollback buckets and cached balances do_rollback computes. The probe
\* shuts down at the first commit that has an event to send after the
\* debugger was dropped, and at no other step; it stays shut down, and a
\* shut down probe neither copies the rolled back transfers nor sends
\* events.
C29_ProbeIsolation ==
    [][/\ BlockCommitted =>
            \E order \in Orders(rollback_transfers(Fork, height)) :
                Fork' = do_rollback(Fork, transactions, height, order)
       /\ shutdown' <=>
            \/ shutdown
            \/ /\ BlockCommitted
               /\ debugger_probe
               /\ rx_dropped
               /\ rollback_transfers(Fork, height) # {}
       /\ (shutdown \/ ~debugger_probe) =>
            /\ rolled_back_transfers' = rolled_back_transfers
            /\ debug_events' = debug_events]_vars

\* The probe shut down when the first rollback after its debugger was
\* dropped could not be reported; a second transfer was rolled back later,
\* refunded like the first, and left no trace in the probe's index.
C29_Witness ==
    /\ debugger_probe
    /\ shutdown
    /\ debug_events = <<>>
    /\ \E i \in OkTransfers : \E j \in OkTransfers :
          /\ i # j
          /\ Refunds(i) # {}
          /\ Refunds(j) # {}
          /\ rolled_back_transfers = {i}

\* ------------------------------------------------- order of the checks
\* Keys that never get a wallet.
Strangers == {"carol", "dave"}

\* The transfers a block may hold next: verified ones, from and to keys with
\* and without a wallet.
Candidates ==
    {t \in {TransferTx(from, to, ROLLBACK_DELAY_START, hlen, amount) :
               from \in Keys \cup Strangers, to \in Keys \cup Strangers,
               hlen \in HistoryLens, amount \in Amounts \cup {INITIAL_BALANCE + 1}} :
        TransferVerify(t)}

\* The checks of the execution, each stated on its own.
NoSender(t) == t.from \notin DOMAIN wallets
NoReceiver(t) == t.to \notin DOMAIN wallets
Outdated(t) == wallets[t.from].last_send_index >= t.history_len
NoReference(t) == t.history_len - 1 \notin DOMAIN past_balances[t.from].items
Unfunded(t) == past_balances[t.from].items[t.history_len - 1] < t.amount

AcceptCandidates ==
    {AcceptTx(receiver, id) :
        receiver \in Keys \cup Strangers, id \in 1 .. Len(transactions) + 1}

\* C31: for every Accept that may come next, execution reports
\* UnknownTransfer if the hash is not that of a stored Transfer; else
\* UnauthorizedAccept if the signer is not the transfer's receiver; else
\* UnknownTransfer if the hash is not in unaccepted[receiver]; else Ok. An
\* Accept of a resolved or failed transfer signed by another key than its
\* receiver is therefore answered with UnauthorizedAccept.
C31_AcceptOrder ==
    \A a \in AcceptCandidates :
        LET id == a.transfer_id
            stored == /\ id \in 1 .. Len(transactions)
                      /\ transactions[id].kind = "Transfer"
            expected ==
                IF ~stored THEN "UnknownTransfer"
                ELSE IF transactions[id].to # a.receiver THEN "UnauthorizedAccept"
                ELSE IF id \notin unaccepted_transfers[a.receiver]
                THEN "UnknownTransfer"
                ELSE "Ok"
        IN /\ AcceptExecute(Fork, transactions, a, height).status = expected
           /\ (stored /\ ~Pending(id) /\ transactions[id].to # a.receiver)
                 => AcceptExecute(Fork, transactions, a, height).status
                        = "UnauthorizedAccept"

\* A transfer was rolled back, and an Accept of it signed by its sender, in
\* a later block, failed with UnauthorizedAccept, while the same Accept
\* signed by the receiver would fail with UnknownTransfer.
C31_Witness ==
    \E j \in 1 .. Len(transactions) :
        /\ transactions[j].kind = "Accept"
        /\ transactions[j].status = "UnauthorizedAccept"
        /\ LET i == transactions[j].transfer_id
           IN /\ i \in OkTransfers
              /\ Refunds(i) # {}
              /\ transactions[j].receiver = transactions[i].from
              /\ transactions[j].block_height > rollback_height(transactions, i) + 1
              /\ AcceptExecute(Fork, transactions,
                               AcceptTx(transactions[i].to, i), height).status
                     = "UnknownTransfer"

\* ------------------------------------------ order of the expiring transfers
\* The transfers the hook of the block being built will roll back.
Expiring == rollback_transfers(Fork, height)

\* The schema the hook leaves when it walks the bucket in the given order.
Hook(order) == do_rollback(Fork, transactions, height, order)

\* Expiring transfers of the sender.
ExpiringFrom(key) == {i \in Expiring : transactions[i].from = key}

\* C32 as stated: the wallet records, histories, unaccepted sets and
\* past-balance caches the hook leaves are the same for every order of the
\* expiring transfers.
C32_Original ==
    \A o1 \in Orders(Expiring) : \A o2 \in Orders(Expiring) :
        /\ Hook(o1).wallets = Hook(o2).wallets
        /\ Hook(o1).history = Hook(o2).history
        /\ Hook(o1).unaccepted = Hook(o2).unaccepted
        /\ Hook(o1).past = Hook(o2).past

\* C32: for every two orders of the expiring transfers the hook leaves the
\* same unaccepted sets and rollback buckets and, for every wallet, the
\* same record up to history_hash, a history with the same old events
\* followed by the same Rollback events, and a past-balance cache with the
\* same indices and the same last balance; the history, its hash and the
\* cached balances are the same as well for every wallet that is the sender
\* of at most one expiring transfer, and follow the order otherwise.
C32_OrderIndependent ==
    \A o1 \in Orders(Expiring) : \A o2 \in Orders(Expiring) :
        LET a == Hook(o1)
            b == Hook(o2)
        IN /\ a.unaccepted = b.unaccepted
           /\ a.rollback = b.rollback
           /\ \A k \in DOMAIN wallets :
                 /\ [a.wallets[k] EXCEPT !.history_hash = ZeroHash]
                       = [b.wallets[k] EXCEPT !.history_hash = ZeroHash]
                 /\ Len(a.history[k]) = Len(b.history[k])
                 /\ SubSeq(a.history[k], 1, Len(history[k])) = history[k]
                 /\ SeqRange(a.history[k]) = SeqRange(b.history[k])
                 /\ DOMAIN a.past[k].items = DOMAIN b.past[k].items
                 /\ a.past[k].capacity = b.past[k].capacity
                 /\ a.past[k].items[a.past[k].capacity - 1]
                       = b.past[k].items[b.past[k].capacity - 1]
                 /\ Cardinality(ExpiringFrom(k)) <= 1 =>
                       /\ a.wallets[k] = b.wallets[k]
                       /\ a.history[k] = b.history[k]
                       /\ a.past[k] = b.past[k]

\* Two transfers of different amounts from one sender to one receiver
\* expire in the block being built: the two orders give the sender two
\* histories and two caches, but one balance, and the receiver one record.
C32_Witness ==
    \E i \in Expiring : \E j \in Expiring :
        /\ i # j
        /\ transactions[i].from = transactions[j].from
        /\ transactions[i].to = transactions[j].to
        /\ transactions[i].amount # transactions[j].amount
        /\ Hook(<<i, j>>).history # Hook(<<j, i>>).history
        /\ Hook(<<i, j>>).past # Hook(<<j, i>>).past
        /\ Hook(<<i, j>>).wallets[transactions[i].from].balance
              = Hook(<<j, i>>).wallets[transactions[i].from].balance
        /\ Hook(<<i, j>>).wallets[transactions[i].to]
              = Hook(<<j, i>>).wallets[transactions[i].to]

\* ------------------------------------------------ presence in the hook
\* maybe_transfer(hash).expect("Transfer"), wallets.get(from).expect("sender")
\* and wallets.get(to).expect("receiver's wallet") all find their value.
HookFinds(id) ==
    /\ IsCommittedTransfer(transactions, id)
    /\ transactions[id].from \in DOMAIN wallets
    /\ transactions[id].to \in DOMAIN wallets

\* C33: in every state of a ledger that starts without wallets, every hash
\* in a rollback bucket - the bucket the next hook will process included -
\* is that of a stored Transfer that executed successfully and whose sender
\* and receiver have wallets, so none of the three `expect`s of the hook
\* can fail.
C33_HookCannotFail ==
    /\ \A p \in rollback_by_height :
          /\ HookFinds(p[2])
          /\ transactions[p[2]].status = "Ok"
    /\ \A id \in Expiring : HookFinds(id)

\* The hook of the block being built has a transfer to roll back, between
\* two wallets created after genesis.
C33_Witness ==
    /\ Expiring # {}
    /\ \E id \in Expiring :
          /\ HookFinds(id)
          /\ transactions[id].block_height > 1
          /\ Pending(id)
          /\ \E c \in 1 .. Len(transactions) :
                /\ transactions[c].kind = "CreateWallet"
                /\ transactions[c].key = transactions[id].to
                /\ transactions[c].status = "Ok"
    /\ transactions[1].block_height >= 1

\* ------------------------------------------------- append-only history
\* The events the step adds to the history of key.
Added(key) == SubSeq(history'[key], Len(history[key]) + 1, Len(history'[key]))

\* The events the transaction just executed produces for key: one for the
\* wallet it creates, debits or credits, none for any other wallet and none
\* when it failed.
Produced(key) ==
    LET id == Len(transactions')
        t == transactions'[id]
    IN IF t.status # "Ok" THEN <<>>
       ELSE IF t.kind = "CreateWallet" /\ t.key = key
            THEN <<EventCreateWallet(id)>>
       ELSE IF t.kind = "Transfer" /\ t.from = key
            THEN <<EventTransfer(id)>>
       ELSE IF t.kind = "Accept" /\ t.receiver = key
            THEN <<EventTransfer(t.transfer_id)>>
       ELSE <<>>

\* Where in the chain the event of key was produced: the block and, in the
\* block, the transaction; the hook runs after every transaction of its
\* block.
EventTime(key, event) ==
    LET id == event.transaction_hash
    IN IF event.tag = 2
       THEN <<rollback_height(transactions, id) + 1, MaxTxs + 1>>
       ELSE IF event.tag = 1 /\ transactions[id].from # key
            THEN LET j == CHOOSE a \in Accepts(id) : TRUE
                 IN <<CommitHeight(j), j>>
       ELSE <<CommitHeight(id), id>>

Earlier(a, b) == a[1] < b[1] \/ (a[1] = b[1] /\ a[2] < b[2])

ExpiringTo(key) == {i \in Expiring : transactions[i].to = key}

\* The wallet record of key changes in its unaccepted_transfers_hash at
\* most, which becomes the root of the new unaccepted set; the history and
\* the cache of past balances of key stay as they are.
ReceiverFrame(key) ==
    /\ wallets'[key] =
           [wallets[key] EXCEPT !.unaccepted_transfers_hash =
                                    MapRoot(unaccepted_transfers'[key])]
    /\ history'[key] = history[key]
    /\ past_balances'[key] = past_balances[key]

\* C35: a successful Transfer adds its hash to the unaccepted set of the
\* receiver and changes nothing else of the receiver but
\* unaccepted_transfers_hash; the hook that rolls transfers back removes
\* them from the unaccepted set of their receiver and changes nothing else
\* of a wallet that is the sender of none of them but
\* unaccepted_transfers_hash; a receiver that is also the sender of expiring
\* transfers keeps its last_send_index and gets the events and the refunds
\* of the transfers it sent, and no event for those it was sent.
C35_ReceiverFrame ==
    [][/\ Executed("Transfer") =>
             LET id == Len(transactions')
                 to == transactions'[id].to
             IN /\ unaccepted_transfers'[to] = unaccepted_transfers[to] \cup {id}
                /\ id \notin unaccepted_transfers[to]
                /\ ReceiverFrame(to)
       /\ height' = height + 1 =>
             \A k \in DOMAIN wallets :
                 /\ unaccepted_transfers'[k] =
                        unaccepted_transfers[k] \ ExpiringTo(k)
                 /\ ExpiringTo(k) \subseteq unaccepted_transfers[k]
                 /\ ExpiringFrom(k) = {} => ReceiverFrame(k)
                 /\ wallets'[k].last_send_index = wallets[k].last_send_index
                 /\ wallets'[k].balance =
                        wallets[k].balance + SumAmounts(ExpiringFrom(k))
                 /\ wallets'[k].history_len =
                        wallets[k].history_len + Cardinality(ExpiringFrom(k))
                 /\ \A i \in ExpiringTo(k) : \A p \in 1 .. Len(history'[k]) :
                        history'[k][p].transaction_hash # i]_vars

\* A transfer was committed and rolled back, and its receiver, which sent
\* nothing and accepted nothing, has the record, the history and the cache
\* its creation gave it.
C35_Witness ==
    \E i \in OkTransfers :
        LET to == transactions[i].to
        IN /\ Refunds(i) # {}
           /\ ~Pending(i)
           /\ wallets[to] = WalletInitialize(to, ListRoot(history[to]))
           /\ Len(history[to]) = 1
           /\ past_balances[to] = SparseSet(EmptySparse, 0, INITIAL_BALANCE)
           /\ wallets[transactions[i].from].balance = INITIAL_BALANCE

\* ------------------------------------------ Accept in the block of expiry
\* The block whose hook rolls the transfer back if it is still pending.
ExpiryBlock(i) == CommitHeight(i) + transactions[i].rollback_delay + 1

\* Accept transactions signed by the receiver of a successful transfer that
\* no earlier Accept has accepted.
FirstAccepts ==
    {j \in 1 .. Len(transactions) :
        /\ transactions[j].kind = "Accept"
        /\ transactions[j].transfer_id \in OkTransfers
        /\ transactions[j].receiver =
               transactions[transactions[j].transfer_id].to
        /\ \A a \in Accepts(transactions[j].transfer_id) : a >= j}

\* C36: an Accept by the receiver of a transfer not accepted before succeeds
\* in every block up to and including the block whose hook would roll the
\* transfer back, and fails with UnknownTransfer in every later block; an
\* accepted transfer is in no bucket and is never rolled back, a rolled
\* back transfer was never accepted; and a successful Accept finds the hash
\* in the bucket of height commit height + delay, where the Transfer put
\* it, and removes it from there - from the bucket the hook of the block
\* being built processes when the Accept is in the block of expiry.
C36_AcceptAtExpiry ==
    /\ [](/\ \A j \in FirstAccepts :
               transactions[j].status =
                   IF CommitHeight(j) <= ExpiryBlock(transactions[j].transfer_id)
                   THEN "Ok" ELSE "UnknownTransfer"
          /\ \A i \in OkTransfers :
               /\ Accepts(i) # {} => Buckets(i) = {} /\ Refunds(i) = {}
               /\ Refunds(i) # {} => Accepts(i) = {}
               /\ Pending(i) <=>
                      height < ExpiryBlock(i) /\ Accepts(i) = {})
    /\ [][Executed("Accept") =>
             LET i == transactions'[Len(transactions')].transfer_id
                 bucket == CommitHeight(i) + transactions[i].rollback_delay
             IN /\ <<bucket, i>> \in rollback_by_height
                /\ rollback_by_height' = rollback_by_height \ {<<bucket, i>>}
                /\ height + 1 = ExpiryBlock(i) =>
                       /\ i \in Expiring
                       /\ i \notin rollback_transfers(
                              [rollback |-> rollback_by_height'], height)]_vars

\* The block of expiry of a transfer has been committed with an Accept of
\* the transfer in it: the Accept succeeded, the receiver is credited and
\* the hook of the block refunded nothing.
C36_Witness ==
    \E j \in FirstAccepts :
        LET i == transactions[j].transfer_id
        IN /\ CommitHeight(j) = ExpiryBlock(i)
           /\ height >= ExpiryBlock(i)
           /\ transactions[j].status = "Ok"
           /\ Credits(i) # {}
           /\ Refunds(i) = {}
           /\ wallets[transactions[i].to].balance =
                  INITIAL_BALANCE + transactions[i].amount

\* ------------------------------------------------------ failed transfers
\* Blocks that hold transfers whose execution fails: for the history_len
\* they refer to, or for an amount the referenced balance does not cover
\* (600_000 twice, or more than the initial balance); each may be followed
\* by an Accept that refers to it.
FailingTransfer ==
    SubmitTransfer(MaxFailed + 1, {ROLLBACK_DELAY_START},
                   {600000, INITIAL_BALANCE + 1})

AcceptOfFailed == SubmitAccept(MaxFailed + 1)

NextFailures ==
    \/ FailingTransfer
    \/ AcceptOfFailed
    \/ CommitBlock

SpecFailures == Init /\ [][NextFailures]_vars

FailedTransfers == Transfers \ OkTransfers

\* C37: a stored Transfer whose execution failed is in no unaccepted set
\* and in no rollback bucket, no history holds an event with its hash (no
\* credit, no refund), and every Accept that refers to it has failed, with
\* UnknownTransfer when signed by the key the transfer names as receiver
\* and with UnauthorizedAccept otherwise; the step that stores the failed
\* Transfer and the step that stores such an Accept leave every index of
\* the schema as it was.
C37_FailedTransfer ==
    /\ [](\A i \in FailedTransfers :
            /\ \A k \in Keys :
                  /\ i \notin unaccepted_transfers[k]
                  /\ \A p \in 1 .. Len(history[k]) :
                        history[k][p].transaction_hash # i
            /\ Buckets(i) = {}
            /\ \A j \in 1 .. Len(transactions) :
                  transactions[j].kind = "Accept"
                  /\ transactions[j].transfer_id = i
                      => transactions[j].status =
                             IF transactions[j].receiver = transactions[i].to
                             THEN "UnknownTransfer"
                             ELSE "UnauthorizedAccept")
    /\ [][Len(transactions') = Len(transactions) + 1 =>
             LET t == transactions'[Len(transactions')]
             IN ((t.kind = "Transfer" /\ t.status # "Ok")
                 \/ (t.kind = "Accept" /\ t.transfer_id \in FailedTransfers))
                    => SchemaUnchanged]_vars

\* A transfer failed, the receiver it names asked to accept it and was
\* answered UnknownTransfer, the block of the Accept has been committed,
\* and both wallets hold what they held before the transfer.
C37_Witness ==
    \E i \in FailedTransfers : \E j \in 1 .. Len(transactions) :
        /\ transactions[j].kind = "Accept"
        /\ transactions[j].transfer_id = i
        /\ transactions[j].receiver = transactions[i].to
        /\ transactions[j].status = "UnknownTransfer"
        /\ height >= CommitHeight(j)
        /\ OkTransfers = {}
        /\ \A k \in Keys : wallets[k] = Registered.wallets[k]
        /\ history = Registered.history

\* A failed transfer would have expired had it succeeded: the hook of that
\* block has run, for a successful transfer of the same block, and the
\* sender of the failed one got nothing back.
C37_Expired ==
    \E i \in FailedTransfers : \E o \in OkTransfers :
        /\ CommitHeight(o) = CommitHeight(i)
        /\ Refunds(o) # {}
        /\ height > CommitHeight(i) + transactions[i].rollback_delay

\* ------------------------------------------- unaccepted sets and buckets
\* C38: in every state, and so at every block boundary, a hash is in the
\* unaccepted set of a key exactly when it is that of a successful transfer
\* to the key that lies in exactly one bucket, the one of height (height of
\* the transfer's block) + rollback_delay; every entry of the bucket index
\* is such a pending transfer at that height, and the height is not below
\* the height of the blockchain: the buckets of the heights below, which
\* the hooks have processed, are empty.
C38_PendingIndex ==
    /\ \A k \in Keys : \A id \in 1 .. Len(transactions) :
          id \in unaccepted_transfers[k]
              <=> /\ id \in OkTransfers
                  /\ transactions[id].to = k
                  /\ Buckets(id) # {}
    /\ \A k \in Keys : unaccepted_transfers[k] \subseteq 1 .. Len(transactions)
    /\ \A p \in rollback_by_height :
          /\ p[2] \in OkTransfers
          /\ Cardinality(Buckets(p[2])) = 1
          /\ p[1] = CommitHeight(p[2]) + transactions[p[2]].rollback_delay
          /\ p[1] >= height
    /\ \A h \in 0 .. height - 1 : rollback_transfers(Fork, h) = {}

\* A block boundary after a hook that emptied its bucket: one transfer was
\* refunded and is in no bucket, another is pending in the bucket of the
\* current height, which the hook of the next block will process.
C38_Witness ==
    /\ BlockTxs = {}
    /\ \E i \in OkTransfers : \E j \in OkTransfers :
          /\ Pending(i)
          /\ Buckets(i) = {height}
          /\ Refunds(j) # {}
          /\ Buckets(j) = {}
          /\ CommitHeight(j) + transactions[j].rollback_delay = height - 1

\* ------------------------------------------- sender and receiver at once
\* Wallets that the hook of the block being built refunds and, for another
\* transfer, relieves of a pending receipt.
BothWays == {k \in DOMAIN wallets : ExpiringFrom(k) # {} /\ ExpiringTo(k) # {}}

\* C39: whatever the order in which the hook processes the expiring
\* transfers, the record it leaves for a wallet that is the sender of some
\* of them and the receiver of others has the balance credited with every
\* refund, history_len and history_hash of the history with the Rollback
\* events appended, the last_send_index it had, and the root of the
\* unaccepted set without the expired receipts; the cache of past balances
\* ends with the new balance.
C39_NoLostUpdate ==
    \A order \in Orders(Expiring) : \A k \in BothWays :
        LET s == Hook(order)
            w == s.wallets[k]
        IN /\ w.balance = wallets[k].balance + SumAmounts(ExpiringFrom(k))
           /\ w.history_len = Len(s.history[k])
           /\ w.history_len =
                  wallets[k].history_len + Cardinality(ExpiringFrom(k))
           /\ w.history_hash = ListRoot(s.history[k])
           /\ \A i \in ExpiringFrom(k) :
                  \E p \in Len(history[k]) + 1 .. Len(s.history[k]) :
                      s.history[k][p] = EventRollback(i)
           /\ w.last_send_index = wallets[k].last_send_index
           /\ s.unaccepted[k] = unaccepted_transfers[k] \ ExpiringTo(k)
           /\ w.unaccepted_transfers_hash = MapRoot(s.unaccepted[k])
           /\ w.unaccepted_transfers_hash # wallets[k].unaccepted_transfers_hash
           /\ past_balance(s, k, w.history_len - 1) =
                  [some |-> TRUE, value |-> w.balance]

\* The hook of a block has rolled back two transfers that crossed: each
\* wallet was the sender of one and the receiver of the other, and each
\* record holds the initial balance again, the Rollback event at the end of
\* its history and the root of an empty unaccepted set.
C39_Witness ==
    \E i \in OkTransfers : \E j \in OkTransfers :
        /\ transactions[i].from = transactions[j].to
        /\ transactions[i].to = transactions[j].from
        /\ CommitHeight(i) + transactions[i].rollback_delay
              = CommitHeight(j) + transactions[j].rollback_delay
        /\ Refunds(i) # {} /\ Refunds(j) # {}
        /\ \A k \in Keys :
              /\ wallets[k].balance = INITIAL_BALANCE
              /\ wallets[k].unaccepted_transfers_hash = ZeroHash
              /\ wallets[k].history_len = 3
              /\ history[k][3].tag = 2
              /\ wallets[k].history_hash = ListRoot(history[k])

\* ------------------------------------------------ funds of the ledger
\* A ledger that starts without wallets and takes CreateWallet, Transfer
\* and Accept transactions, successful and failed, and commits blocks.
\* The wallets are created in the first block.
FundingWallet == height = 0 /\ SubmitCreateWallet(MaxFailed)

FundedTransfer == SubmitTransfer(MaxFailed, {ROLLBACK_DELAY_START}, {600000})

NextFunds ==
    \/ FundingWallet
    \/ FundedTransfer
    \/ Accept
    \/ CommitBlock

SpecFunds == InitGenesis /\ [][NextFunds]_vars

\* Hashes that are in the unaccepted set of some key.
Unaccepted == UNION {unaccepted_transfers[k] : k \in Keys}

\* The balances of the wallets and the amounts of the unaccepted transfers.
Funds == SumBalances(DOMAIN wallets) + SumAmounts(Unaccepted)

\* C40: in every state the balances of all wallets plus the amounts of the
\* transfers that are in some unaccepted set sum to the initial balance
\* times the number of wallets; and no step creates or destroys funds: a
\* step changes the sum by the initial balance of the wallet it creates, and
\* a failed transaction, a Transfer, an Accept and a hook leave it as it is.
C40_FundsConserved ==
    /\ [](Funds = INITIAL_BALANCE * Cardinality(DOMAIN wallets))
    /\ [][/\ Funds' =
               Funds + INITIAL_BALANCE * Cardinality(DOMAIN wallets' \ DOMAIN wallets)
          /\ DOMAIN wallets \subseteq DOMAIN wallets'
          /\ ~Executed("CreateWallet") => Funds' = Funds]_vars

\* Funds in every place at once, after a failed transaction: two wallets
\* were created one after the other, a transfer is unaccepted, its sender's
\* balance is short of its amount, and a transaction has failed.
C40_Witness ==
    /\ Cardinality(DOMAIN wallets) = 2
    /\ transactions[1].status = "Ok"
    /\ Failed # {}
    /\ \E i \in Unaccepted :
          /\ transactions[i].amount > 0
          /\ wallets[transactions[i].from].balance
                = INITIAL_BALANCE - transactions[i].amount
          /\ wallets[transactions[i].to].balance = INITIAL_BALANCE
    /\ Funds = 2 * INITIAL_BALANCE
====
